---- MODULE Spec2Model ----
(***************************************************************************)
(* The enclave of a privilege-separated WireGuard daemon (src/enclave.c).  *)
(*                                                                         *)
(* One enclave process serves several interfaces.  The interfaces of the   *)
(* modelled configuration are each other's peers, so that both sides of a  *)
(* handshake run the code of enclave.c: a message the enclave hands to an  *)
(* interface for transmission is in flight (net) and may come back, at any *)
(* later time and any number of times, through the proxy or through an     *)
(* interface descriptor, unchanged or tampered with.                       *)
(*                                                                         *)
(* Cryptographic values are symbolic terms: tuples whose first element is  *)
(* a tag.  Hashes, MACs and KDF outputs are injective in their inputs, an  *)
(* AEAD box opens only under the key and the associated data it was sealed *)
(* with, and X25519 is commutative in the two private keys.                *)
(***************************************************************************)
EXTENDS Integers, Sequences, FiniteSets, TLC

(* ------------------------------ bounds -------------------------------- *)

\* number of MSGREQWGINIT requests the interfaces send in a behaviour
MaxInits == 1
\* arc4random() and uninitialised session ids range over 0..MaxSessId
MaxSessId == 1
\* the clock of an initiator takes the values 1..MaxTs
MaxTs == 2

(* ------------------------- program constants -------------------------- *)

TAGLEN == 16
TSLEN == 12
NULL == -1

(* ------------------------------ bytes --------------------------------- *)

Zeros(n) == [j \in 1..n |-> 0]

\* htole32(3): the four bytes of a 32 bit value, least significant first
htole32(v) == <<v % 256, (v \div 256) % 256, (v \div 65536) % 256, (v \div 16777216) % 256>>

le32toh(b) == b[1] + 256 * b[2] + 65536 * b[3] + 16777216 * b[4]

\* the sign of memcmp(3) over the first n bytes of a and b
RECURSIVE memcmpfrom(_, _, _, _)
memcmpfrom(a, b, j, n) ==
    IF j > n THEN 0
    ELSE IF a[j] < b[j] THEN -1
    ELSE IF a[j] > b[j] THEN 1
    ELSE memcmpfrom(a, b, j + 1, n)

memcmp(a, b, n) == memcmpfrom(a, b, 1, n)

(* ------------------------- symbolic crypto ---------------------------- *)

ZeroKey == <<"zero">>
Empty == <<"empty">>
Junk == <<"junk">>
Const(s) == <<"const", s>>

\* X25519 public key of a private key; private keys are positive numbers
Pub(priv) == <<"pub", priv>>
\* a point of low order: X25519 with it yields the all-zero output
LowOrder == <<"pub", 0>>

\* BLAKE2s over the concatenation of two segments
ws_hash(in1, in2) == <<"hash", in1, in2>>

\* keyed BLAKE2s over the first "offset" fields of a message
ws_mac(data, key) == <<"mac", key, data>>

hmac(in, key) == <<"hmac", key, in>>

\* The keys kdfn derives: t0 = HMAC(key, in), out1 = HMAC(t0, 1) and
\* out(t) = HMAC(t0, out(t-1) || t).  Output t is a function of t0 and t
\* alone and is written as that.
kdfnout(t0, t) == <<"kdf", t0, t>>

\* the iovoutlen keys derived from "in" under "key"; a NULL input is the
\* empty string Empty
kdfn(iovoutlen, in, key) ==
    LET t0 == hmac(in, key)
    IN  IF iovoutlen < 1 \/ iovoutlen > 255 THEN [ret |-> -1, out |-> <<>>]
        ELSE [ret |-> 0, out |-> [t \in 1..iovoutlen |-> kdfnout(t0, t)]]

kdf1(in, key) == kdfn(1, in, key).out[1]

\* X25519(3) returns 0 when the shared secret is all zero
dh(privkey, peerkey) ==
    IF peerkey[1] = "pub" /\ peerkey[2] # 0
    THEN [ret |-> 0, k |-> <<"dh", {privkey, peerkey[2]}>>]
    ELSE [ret |-> -1, k |-> ZeroKey]

inithash2(in1, in2) == ws_hash(in1, in2)

appendhash(h, in) == ws_hash(h, in)

\* ChaCha20-Poly1305 with the all-zero nonce, sealing
aeadseal(in, key, h) == [ret |-> 0, out |-> <<"aead", key, in, h>>]

\* opening: fails unless the box was sealed under key with associated data h
aeadopen(in, key, h) ==
    IF in[1] = "aead" /\ in[2] = key /\ in[4] = h
    THEN [ret |-> 0, out |-> in[3]]
    ELSE [ret |-> -1, out |-> ZeroKey]

(* --------------------------- configuration ---------------------------- *)

\* The static private key of interface n is StaticPriv[n + 1]; peer m of
\* interface n is the holder of the private key PeerPrivs[n + 1][m + 1].
\* Interface 0 and 1 are each other's peers.  Interface 1 also lists
\* interface 2 and interface 2 lists interface 0, neither of which lists the
\* other back.
StaticPriv == <<1, 2, 3>>
PeerPrivs == << <<2>>, <<1, 3>>, <<1>> >>

ifnvsize == Len(StaticPriv)
IfnIds == 0..(ifnvsize - 1)
peerssize(n) == Len(PeerPrivs[n + 1])
Peers == UNION {{<<n, m>> : m \in 0..(peerssize(n) - 1)} : n \in IfnIds}

\* the pre-shared key two parties have configured for each other
PskOf(a, b) == IF {a, b} = {1, 2} THEN Const("psk") ELSE ZeroKey

conshash == Const("conshash")
considhash == ws_hash(conshash, Const("identifier"))

\* descriptors: the proxy's and one per interface
pport == 3
IfnPort(n) == pport + 1 + n
Ports == {pport} \cup {IfnPort(n) : n \in IfnIds}

\* struct ifn as recvconfig fills it from SIFN
ifn(n) ==
    LET priv == StaticPriv[n + 1]
    IN  [id |-> n, port |-> IfnPort(n), privkey |-> priv, pubkey |-> Pub(priv),
         pubkeyhash |-> ws_hash(considhash, Pub(priv)),
         mac1key |-> ws_hash(Const("mac1----"), Pub(priv)),
         cookiekey |-> ws_hash(Const("cookie--"), Pub(priv)),
         peerssize |-> peerssize(n)]

\* struct peer as recvconfig fills it from SPEER
peerof(n, m) ==
    LET rpriv == PeerPrivs[n + 1][m + 1]
    IN  [id |-> m, ifn |-> n, pubkey |-> Pub(rpriv),
         pubkeyhash |-> appendhash(considhash, Pub(rpriv)),
         mac1key |-> ws_hash(Const("mac1----"), Pub(rpriv)),
         dhsecret |-> dh(StaticPriv[n + 1], Pub(rpriv)).k,
         psk |-> PskOf(StaticPriv[n + 1], rpriv)]

\* findifnpeerbypubkey searching the peers of every interface
findifnpeerbypubkey_all(n, pubkey) ==
    LET hit == {m \in 0..1 : \E n2 \in IfnIds :
                   m < peerssize(n2) /\ peerof(n2, m).pubkey = pubkey}
    IN  IF hit = {} THEN NULL ELSE CHOOSE m \in hit : \A x \in hit : m <= x

\* the id of the first peer of interface n with this public key, or NULL
findifnpeerbypubkey(n, pubkey) ==
    LET hit == {m \in 0..(peerssize(n) - 1) : peerof(n, m).pubkey = pubkey}
    IN  IF hit = {} THEN NULL ELSE CHOOSE m \in hit : \A x \in hit : m <= x

\* findifnpeerbysessid falling back to the first peer of the interface
findifnpeerbysessid_first(n, sessid, HS) ==
    LET hit == {m \in 0..(peerssize(n) - 1) : HS[<<n, m>>].sessid = sessid}
    IN  IF hit = {} THEN 0 ELSE CHOOSE m \in hit : \A x \in hit : m <= x

\* the id of the first peer of interface n whose handshake has this local
\* session id, or NULL
findifnpeerbysessid(n, sessid, HS) ==
    LET hit == {m \in 0..(peerssize(n) - 1) : HS[<<n, m>>].sessid = sessid}
    IN  IF hit = {} THEN NULL ELSE CHOOSE m \in hit : \A x \in hit : m <= x

\* findifnpeerbyid taking the id modulo the number of peers
findifnpeerbyid_wrap(n, peerid) == peerid % peerssize(n)
\* the peer of interface n with this id, or NULL
findifnpeerbyid(n, peerid) ==
    IF peerid >= peerssize(n) THEN NULL ELSE peerid

(* ----------------------------- messages ------------------------------- *)

\* struct msgwginit up to mac1 (MAC1OFFSETINIT) and struct msgwgresp up to
\* mac1 (MAC1OFFSETRESP)
Mac1DataInit(mwi) == <<"init", mwi.type, mwi.sender, mwi.ephemeral, mwi.stat, mwi.timestamp>>
Mac1DataResp(mwr) == <<"resp", mwr.type, mwr.sender, mwr.receiver, mwr.ephemeral, mwr.empty>>

ws_validmac(mac1, data, key) == mac1 = ws_mac(data, key)

\* a 12 byte TAI64N label in external format, as plaintext
Ts(bytes) == <<"ts", bytes>>

\* a frame written to the descriptor of the proxy
Frame_pport(port, peerid, mtcode, body) ==
    [port |-> pport, peerid |-> peerid, mtcode |-> mtcode, body |-> body]

\* a frame written with wire_sendpeeridmsg
Frame(port, peerid, mtcode, body) ==
    [port |-> port, peerid |-> peerid, mtcode |-> mtcode, body |-> body]

(* ------------------------------- state -------------------------------- *)

VARIABLES
    hs,       \* struct hs of every peer
    recvts,   \* recvts of every peer
    sent,     \* the frames the last dispatched message made the enclave send
    net,      \* the handshake messages handed to an interface so far
    last,     \* the last dispatched message and what its handler returned
    keylog,   \* every MSGSESSKEYS sent so far, with the response it belongs to
    accepted, \* the mac1 of every init accepted so far
    nkeys,    \* ephemeral key pairs generated so far for every peer
    left,     \* MSGREQWGINIT requests the interfaces still send
    who,      \* the peers an interface sends MSGREQWGINIT for
    io,       \* whether a write to an interface descriptor can fail
    pc,       \* where enclave_serv is: "kevent", "handled", "checked", "exit" or "fault"
    inq,      \* the frames written to each descriptor and not yet read, oldest first
    rd,       \* for each descriptor the arrival number of the frame read last
    hup,      \* the descriptors whose other end was closed
    closed,   \* the descriptors the enclave closed
    doterm,   \* the flag handlesig sets on SIGINT and SIGTERM
    ev,       \* the events kevent returned that the loop has not yet looked at
    scratch,  \* the static buffers k, t0, tau, tmpc, tmpstat and tmpts
    ifnv,     \* the interfaces and peers recvconfig has stored so far
    boot,     \* where the enclave is in its startup
    masterq,  \* the startup messages written to the enclave and not yet read
    mast,     \* the master process
    kids      \* the children the master forked

\* the event loop's view of its descriptors and signals
loopvars == <<inq, rd, hup, closed, doterm, ev>>

\* the startup of the master and of the enclave
startvars == <<ifnv, boot, masterq, mast, kids>>

vars == <<hs, recvts, sent, net, last, keylog, accepted, nkeys, left, who, io, pc,
          inq, rd, hup, closed, doterm, ev, scratch, ifnv, boot, masterq, mast, kids>>

(* --------------------------- the handshake ---------------------------- *)

\* memcmp(tmpts, (*peer)->recvts, sizeof(tmpts)) <= 0, where tmpts is the
\* 12 + TAGLEN byte buffer and mem the peer's memory from recvts onwards
replayed_less(tmpts, mem) == memcmp(tmpts, mem, Len(tmpts)) < 0
replayed(tmpts, mem) == memcmp(tmpts, mem, Len(tmpts)) <= 0

\* the result of a failed upgrade: nothing is committed
hsfail_wipe(err, peer, HS, RTS, mwi) ==
    [ret |-> -1, err |-> err, peer |-> peer,
     HS |-> [q \in DOMAIN HS |-> [HS[q] EXCEPT !.c = Junk, !.h = Junk]],
     recvts |-> RTS, mwi |-> mwi]
hsfail(err, peer, HS, RTS, mwi) ==
    [ret |-> -1, err |-> err, peer |-> peer, HS |-> HS, recvts |-> RTS, mwi |-> mwi]

\* the new timestamp is saved in the peer: memcpy(recvts, tmpts, sizeof(recvts))
storets_skip(RTS, q, tmpts) == RTS
storets(RTS, q, tmpts) == [RTS EXCEPT ![q] = SubSeq(tmpts, 1, TSLEN)]

\* the upgraded state is saved in hs once every check has passed
sethsinit_noh(hsq, responder, mwi, tmpc, tmph) ==
    IF responder THEN [hsq EXCEPT !.epubi = mwi.ephemeral, !.c = tmpc]
    ELSE [hsq EXCEPT !.c = tmpc, !.h = tmph]
sethsinit(hsq, responder, mwi, tmpc, tmph) ==
    IF responder THEN [hsq EXCEPT !.epubi = mwi.ephemeral, !.c = tmpc, !.h = tmph]
    ELSE [hsq EXCEPT !.c = tmpc, !.h = tmph]

\* Upgrade handshake initialization state.  "peer" is a peer id of interface
\* n or NULL, HS and RTS are the handshake states and timestamps on entry and
\* tail the 16 bytes that follow recvts in memory.
upgradehsinit(n, mwi, peer, responder, HS, RTS, tail) ==
    LET tmph0 == IF responder THEN ifn(n).pubkeyhash ELSE peerof(n, peer).pubkeyhash
        tmph1 == appendhash(tmph0, mwi.ephemeral)
        tmpc1 == kdf1(mwi.ephemeral, conshash)
        dh1 == IF responder THEN dh(ifn(n).privkey, mwi.ephemeral)
               ELSE dh(HS[<<n, peer>>].epriv, peerof(n, peer).pubkey)
        kd1 == kdfn(2, dh1.k, tmpc1).out
        tmpc2 == kd1[1]
        k2 == kd1[2]
        tmpstat == aeadopen(mwi.stat, k2, tmph1)
        found == findifnpeerbypubkey(n, tmpstat.out)
        p == IF responder THEN found ELSE peer
        stat == IF responder THEN mwi.stat ELSE aeadseal(ifn(n).pubkey, k2, tmph1).out
        tmph2 == appendhash(tmph1, stat)
        kd2 == kdfn(2, peerof(n, p).dhsecret, tmpc2).out
        tmpc3 == kd2[1]
        k3 == kd2[2]
        tsopen == aeadopen(mwi.timestamp, k3, tmph2)
        tmpts == tsopen.out[2] \o Zeros(TAGLEN)
        timestamp == IF responder THEN mwi.timestamp
                     ELSE aeadseal(mwi.timestamp, k3, tmph2).out
        tmph3 == appendhash(tmph2, timestamp)
        q == <<n, p>>
    IN  IF dh1.ret = -1 THEN hsfail("dh", peer, HS, RTS, mwi)
        ELSE IF responder /\ tmpstat.ret = -1 THEN hsfail("stat", peer, HS, RTS, mwi)
        ELSE IF responder /\ found = NULL THEN hsfail("nopeer", peer, HS, RTS, mwi)
        ELSE IF responder /\ peer # NULL /\ found # peer
             THEN hsfail("wrongpeer", peer, HS, RTS, mwi)
        ELSE IF responder /\ tsopen.ret = -1 THEN hsfail("timestamp", p, HS, RTS, mwi)
        ELSE IF responder /\ replayed(tmpts, RTS[q] \o tail)
             THEN hsfail("replay", p, HS, RTS, mwi)
        ELSE [ret |-> 0, err |-> "", peer |-> p,
              HS |-> [HS EXCEPT ![q] = sethsinit(HS[q], responder, mwi, tmpc3, tmph3)],
              recvts |-> IF responder THEN storets(RTS, q, tmpts) ELSE RTS,
              mwi |-> [mwi EXCEPT !.stat = stat, !.timestamp = timestamp]]

\* Create new handshake initialization state and a message for peer q, with
\* sessid from arc4random, epriv from X25519_keypair and now from the clock.
createhsinit_mac2(q, sessid, epriv, now, HS, RTS) ==
    LET HS1 == [HS EXCEPT ![q].sessid = sessid, ![q].epriv = epriv]
        mwi0 == [type |-> htole32(1), sender |-> sessid, ephemeral |-> Pub(epriv),
                 stat |-> Junk, timestamp |-> Ts(now), mac1 |-> Junk, mac2 |-> Junk]
        u == upgradehsinit(q[1], mwi0, q[2], FALSE, HS1, RTS, Zeros(TAGLEN))
    IN  IF u.ret = -1 THEN [ret |-> -1, HS |-> HS1, mwi |-> u.mwi]
        ELSE [ret |-> 0, HS |-> u.HS,
              mwi |-> [u.mwi EXCEPT
                         !.mac1 = ws_mac(Mac1DataInit(u.mwi), peerof(q[1], q[2]).mac1key)]]
\* createhsinit that leaves the local session id of the peer as it was
createhsinit_oldsess(q, sessid, epriv, now, HS, RTS) ==
    LET HS1 == [HS EXCEPT ![q].epriv = epriv]
        mwi0 == [type |-> htole32(1), sender |-> sessid, ephemeral |-> Pub(epriv),
                 stat |-> Junk, timestamp |-> Ts(now), mac1 |-> Junk, mac2 |-> Junk]
        u == upgradehsinit(q[1], mwi0, q[2], FALSE, HS1, RTS, Zeros(TAGLEN))
    IN  IF u.ret = -1 THEN [ret |-> -1, HS |-> HS1, mwi |-> u.mwi]
        ELSE [ret |-> 0, HS |-> u.HS,
              mwi |-> [u.mwi EXCEPT
                         !.mac1 = ws_mac(Mac1DataInit(u.mwi), peerof(q[1], q[2]).mac1key),
                         !.mac2 = Zeros(16)]]
createhsinit(q, sessid, epriv, now, HS, RTS) ==
    LET HS1 == [HS EXCEPT ![q].sessid = sessid, ![q].epriv = epriv]
        mwi0 == [type |-> htole32(1), sender |-> sessid, ephemeral |-> Pub(epriv),
                 stat |-> Junk, timestamp |-> Ts(now), mac1 |-> Junk, mac2 |-> Junk]
        u == upgradehsinit(q[1], mwi0, q[2], FALSE, HS1, RTS, Zeros(TAGLEN))
    IN  IF u.ret = -1 THEN [ret |-> -1, HS |-> HS1, mwi |-> u.mwi]
        ELSE [ret |-> 0, HS |-> u.HS,
              mwi |-> [u.mwi EXCEPT
                         !.mac1 = ws_mac(Mac1DataInit(u.mwi), peerof(q[1], q[2]).mac1key),
                         !.mac2 = Zeros(16)]]

\* the new chaining key is saved in hs: memcpy(hs->c, tmpc, sizeof(hs->c))
sethsresp_initiator(hsq, responder, tmpc) ==
    IF responder THEN hsq ELSE [hsq EXCEPT !.c = tmpc]
sethsresp_responder(hsq, responder, tmpc) ==
    IF responder THEN [hsq EXCEPT !.c = tmpc] ELSE hsq
sethsresp(hsq, responder, tmpc) == [hsq EXCEPT !.c = tmpc]

\* Upgrade handshake response state of peer q, whose handshake state is hsq.
upgradehsresp(q, hsq, mwr, responder) ==
    LET peer == peerof(q[1], q[2])
        tmpc1 == kdf1(mwr.ephemeral, hsq.c)
        tmph1 == inithash2(hsq.h, mwr.ephemeral)
        dh1 == IF responder THEN dh(hsq.epriv, hsq.epubi) ELSE dh(hsq.epriv, mwr.ephemeral)
        tmpc2 == kdf1(dh1.k, tmpc1)
        dh2 == IF responder THEN dh(hsq.epriv, peer.pubkey)
               ELSE dh(ifn(q[1]).privkey, mwr.ephemeral)
        tmpc3 == kdf1(dh2.k, tmpc2)
        kd == kdfn(3, peer.psk, tmpc3).out
        tmpc4 == kd[1]
        tau == kd[2]
        k == kd[3]
        tmph2 == appendhash(tmph1, tau)
        empty == IF responder THEN aeadseal(Empty, k, tmph2) ELSE aeadopen(mwr.empty, k, tmph2)
    IN  IF dh1.ret = -1 \/ dh2.ret = -1 THEN [ret |-> -1, err |-> "dh", hs |-> hsq, mwr |-> mwr]
        ELSE IF empty.ret = -1 THEN [ret |-> -1, err |-> "empty", hs |-> hsq, mwr |-> mwr]
        ELSE [ret |-> 0, err |-> "", hs |-> sethsresp(hsq, responder, tmpc4),
              mwr |-> IF responder THEN [mwr EXCEPT !.empty = empty.out] ELSE mwr]

\* struct msgwginit as it reads through a pointer to msg once the fields in
\* written of struct msgwgresp were stored through another pointer to msg:
\* type and sender of the two structs share their bytes, and receiver and
\* ephemeral of the response lie over ephemeral and the start of stat of the
\* init
aliased(mwi, mwr, written) ==
    [mwi EXCEPT !.type = IF "type" \in written THEN mwr.type ELSE @,
                !.sender = IF "sender" \in written THEN mwr.sender ELSE @,
                !.ephemeral = IF written \cap {"receiver", "ephemeral"} # {} THEN Junk ELSE @,
                !.stat = IF "ephemeral" \in written THEN Junk ELSE @]

\* createhsresp that leaves the remote session id of the peer as it was
createhsresp_keepsess(q, mwi, sessid, epriv, HS) ==
    LET HS1 == [HS EXCEPT ![q].sessid = sessid, ![q].epriv = epriv]
        mwr0 == [type |-> htole32(2), sender |-> sessid, receiver |-> mwi.sender,
                 ephemeral |-> Pub(epriv), empty |-> Junk, mac1 |-> Junk, mac2 |-> Junk]
        u == upgradehsresp(q, HS1[q], mwr0, TRUE)
    IN  IF u.ret = -1 THEN [ret |-> -1, HS |-> [HS1 EXCEPT ![q] = u.hs], mwr |-> mwr0]
        ELSE [ret |-> 0, HS |-> [HS1 EXCEPT ![q] = u.hs],
              mwr |-> [u.mwr EXCEPT
                         !.mac1 = ws_mac(Mac1DataResp(u.mwr), peerof(q[1], q[2]).mac1key),
                         !.mac2 = Zeros(16)]]

\* createhsresp reading the sender of the init after it has stored type and
\* sender of the response
createhsresp_late(q, mwi, sessid, epriv, HS) ==
    LET peersessid == aliased(mwi, [type |-> htole32(2), sender |-> sessid],
                              {"type", "sender"}).sender
        HS1 == [HS EXCEPT ![q].sessid = sessid, ![q].peersessid = peersessid,
                          ![q].epriv = epriv]
        mwr0 == [type |-> htole32(2), sender |-> sessid, receiver |-> peersessid,
                 ephemeral |-> Pub(epriv), empty |-> Junk, mac1 |-> Junk, mac2 |-> Junk]
        u == upgradehsresp(q, HS1[q], mwr0, TRUE)
    IN  IF u.ret = -1 THEN [ret |-> -1, HS |-> [HS1 EXCEPT ![q] = u.hs], mwr |-> mwr0]
        ELSE [ret |-> 0, HS |-> [HS1 EXCEPT ![q] = u.hs],
              mwr |-> [u.mwr EXCEPT
                         !.mac1 = ws_mac(Mac1DataResp(u.mwr), peerof(q[1], q[2]).mac1key),
                         !.mac2 = Zeros(16)]]

\* Create new handshake response state and a message for peer q.  mwi and
\* the response both point to msg: the sender of the init is read before
\* any field of the response is stored.
createhsresp(q, mwi, sessid, epriv, HS) ==
    LET peersessid == aliased(mwi, [type |-> htole32(2), sender |-> sessid], {}).sender
        HS1 == [HS EXCEPT ![q].sessid = sessid, ![q].peersessid = peersessid,
                          ![q].epriv = epriv]
        mwr0 == [type |-> htole32(2), sender |-> sessid, receiver |-> peersessid,
                 ephemeral |-> Pub(epriv), empty |-> Junk, mac1 |-> Junk, mac2 |-> Junk]
        u == upgradehsresp(q, HS1[q], mwr0, TRUE)
    IN  IF u.ret = -1 THEN [ret |-> -1, HS |-> [HS1 EXCEPT ![q] = u.hs], mwr |-> mwr0]
        ELSE [ret |-> 0, HS |-> [HS1 EXCEPT ![q] = u.hs],
              mwr |-> [u.mwr EXCEPT
                         !.mac1 = ws_mac(Mac1DataResp(u.mwr), peerof(q[1], q[2]).mac1key),
                         !.mac2 = Zeros(16)]]

\* Generate new transport data keys based on the chaining key.
makemsgsesskeys_sameorder(hsq, responder) ==
    LET kd == kdfn(2, Empty, hsq.c).out
    IN  [sessid |-> hsq.sessid, peersessid |-> hsq.peersessid,
         sendkey |-> kd[1], recvkey |-> kd[2]]
makemsgsesskeys(hsq, responder) ==
    LET kd == kdfn(2, Empty, hsq.c).out
    IN  [sessid |-> hsq.sessid, peersessid |-> hsq.peersessid,
         sendkey |-> IF responder THEN kd[2] ELSE kd[1],
         recvkey |-> IF responder THEN kd[1] ELSE kd[2]]

makemsgconnreq(fsn, lsn) == [fsn |-> fsn, lsn |-> lsn]

(* ---------------------------- the handlers ---------------------------- *)

NoHs == [c |-> Junk, h |-> Junk]

\* what a handler returns when it drops the message without any effect
dropped(err, peer, HS, RTS) ==
    [ret |-> -1, err |-> err, peer |-> peer, HS |-> HS, recvts |-> RTS,
     sent |-> <<>>, out |-> {}, keys |-> {}, hsinit |-> NoHs]

\* the frames written before the send with ordinal sendfail fails (0: none)
written(frames, sendfail) ==
    IF sendfail = 0 \/ sendfail > Len(frames) THEN frames
    ELSE SubSeq(frames, 1, sendfail - 1)

\* the frames handlewginit sends for an authenticated init
initframes_keysfirst(n, id, fsn, lsn, msk, mwr) ==
    <<Frame(ifn(n).port, id, "MSGSESSKEYS", msk)>>
    \o (IF fsn # NULL /\ lsn # NULL
        THEN <<Frame(ifn(n).port, id, "MSGCONNREQ", makemsgconnreq(fsn, lsn))>>
        ELSE <<>>)
    \o <<Frame(ifn(n).port, id, "MSGWGRESP", mwr)>>
initframes_connreq(n, id, fsn, lsn, msk, mwr) ==
    <<Frame(ifn(n).port, id, "MSGCONNREQ", makemsgconnreq(fsn, lsn)),
      Frame(ifn(n).port, id, "MSGSESSKEYS", msk), Frame(ifn(n).port, id, "MSGWGRESP", mwr)>>
initframes(n, id, fsn, lsn, msk, mwr) ==
    (IF fsn # NULL /\ lsn # NULL
     THEN <<Frame(ifn(n).port, id, "MSGCONNREQ", makemsgconnreq(fsn, lsn))>>
     ELSE <<>>)
    \o <<Frame(ifn(n).port, id, "MSGSESSKEYS", msk), Frame(ifn(n).port, id, "MSGWGRESP", mwr)>>

\* the frames handlewgresp sends for an authenticated response
respframes_noconnreq(n, id, fsn, lsn, msk) ==
    <<Frame(ifn(n).port, id, "MSGSESSKEYS", msk)>>
respframes(n, id, fsn, lsn, msk) ==
    (IF fsn # NULL /\ lsn # NULL
     THEN <<Frame(ifn(n).port, id, "MSGCONNREQ", makemsgconnreq(fsn, lsn))>>
     ELSE <<>>)
    \o <<Frame(ifn(n).port, id, "MSGSESSKEYS", msk)>>

\* what a handler returns that got as far as sending frames, of which it
\* wrote done: its handshake message out is in flight if every frame was
\* written, and the interface has the keys if MSGSESSKEYS was
replied(frames, done, peer, HS, RTS, out, keys, hsinit) ==
    [ret |-> IF done = frames THEN 0 ELSE -1,
     err |-> IF done = frames THEN "" ELSE "send",
     peer |-> peer, HS |-> HS, recvts |-> RTS, sent |-> done,
     out |-> IF done = frames THEN out ELSE {},
     keys |-> IF \E j \in 1..Len(done) : done[j].mtcode = "MSGSESSKEYS" THEN keys ELSE {},
     hsinit |-> hsinit]

\* handlewginit once createhsresp returned r for the init that upgradehsinit
\* accepted with u
sendwgresp(n, fsn, lsn, sendfail, u, r) ==
    LET q == <<n, u.peer>>
        hsinit == [c |-> u.HS[q].c, h |-> u.HS[q].h]
        msk == makemsgsesskeys(r.HS[q], TRUE)
        frames == initframes(n, peerof(n, u.peer).id, fsn, lsn, msk, r.mwr)
    IN  IF r.ret = -1
        THEN [dropped("createhsresp", u.peer, r.HS, u.recvts) EXCEPT !.hsinit = hsinit]
        ELSE replied(frames, written(frames, sendfail), u.peer, r.HS, u.recvts, {r.mwr},
                     {[q |-> q, responder |-> TRUE, msk |-> msk, c |-> r.HS[q].c,
                       ephemeral |-> r.mwr.ephemeral, id |-> u.mwi.mac1]},
                     hsinit)

\* handlewginit once upgradehsinit returned u
authwginit(n, fsn, lsn, mwi, sessid, epriv, sendfail, u) ==
    IF u.ret = -1 THEN dropped(u.err, u.peer, u.HS, u.recvts)
    ELSE sendwgresp(n, fsn, lsn, sendfail, u,
                    createhsresp(<<n, u.peer>>, mwi, sessid, epriv[<<n, u.peer>>], u.HS))

\* handlewginit without the verification of mac1
handlewginit_nomac(n, peer, fsn, lsn, mwi, sessid, epriv, tail, sendfail, HS, RTS) ==
    authwginit(n, fsn, lsn, mwi, sessid, epriv, sendfail,
               upgradehsinit(n, mwi, peer, TRUE, HS, RTS, tail))

\* Handle an incoming MSGWGINIT on interface n; peer is the peer id the
\* interface asserts or NULL, fsn and lsn the proxy's addresses or NULL.
handlewginit(n, peer, fsn, lsn, mwi, sessid, epriv, tail, sendfail, HS, RTS) ==
    IF ~ws_validmac(mwi.mac1, Mac1DataInit(mwi), ifn(n).mac1key)
    THEN dropped("mac1", peer, HS, RTS)
    ELSE authwginit(n, fsn, lsn, mwi, sessid, epriv, sendfail,
                    upgradehsinit(n, mwi, peer, TRUE, HS, RTS, tail))

\* handlewgresp that sends the session keys whatever upgradehsresp returned
authwgresp_always(n, fsn, lsn, mwr, sendfail, q, HS, RTS, u) ==
    LET HS1 == [HS EXCEPT ![q] = [u.hs EXCEPT !.peersessid = mwr.sender]]
        msk == makemsgsesskeys(HS1[q], FALSE)
        frames == respframes(n, peerof(n, q[2]).id, fsn, lsn, msk)
    IN  replied(frames, written(frames, sendfail), q[2], HS1, RTS, {},
                {[q |-> q, responder |-> FALSE, msk |-> msk, c |-> HS1[q].c,
                  ephemeral |-> mwr.ephemeral, id |-> mwr.mac1]},
                NoHs)

\* handlewgresp once upgradehsresp returned u for peer q
authwgresp(n, fsn, lsn, mwr, sendfail, q, HS, RTS, u) ==
    LET HS1 == [HS EXCEPT ![q] = [u.hs EXCEPT !.peersessid = mwr.sender]]
        msk == makemsgsesskeys(HS1[q], FALSE)
        frames == respframes(n, peerof(n, q[2]).id, fsn, lsn, msk)
    IN  IF u.ret = -1 THEN dropped(u.err, q[2], [HS EXCEPT ![q] = u.hs], RTS)
        ELSE replied(frames, written(frames, sendfail), q[2], HS1, RTS, {},
                     {[q |-> q, responder |-> FALSE, msk |-> msk, c |-> HS1[q].c,
                       ephemeral |-> mwr.ephemeral, id |-> mwr.mac1]},
                     NoHs)

\* handlewgresp without the comparison of the asserted peer with the peer
\* the session id belongs to
handlewgresp_anypeer(n, peer, fsn, lsn, mwr, sendfail, HS, RTS) ==
    LET p == findifnpeerbysessid(n, mwr.receiver, HS)
    IN  IF ~ws_validmac(mwr.mac1, Mac1DataResp(mwr), ifn(n).mac1key)
        THEN dropped("mac1", peer, HS, RTS)
        ELSE IF p = NULL THEN dropped("nosess", peer, HS, RTS)
        ELSE authwgresp(n, fsn, lsn, mwr, sendfail, <<n, p>>, HS, RTS,
                        upgradehsresp(<<n, p>>, HS[<<n, p>>], mwr, FALSE))

\* Handle an incoming MSGWGRESP on interface n.
handlewgresp(n, peer, fsn, lsn, mwr, sendfail, HS, RTS) ==
    LET p == findifnpeerbysessid(n, mwr.receiver, HS)
    IN  IF ~ws_validmac(mwr.mac1, Mac1DataResp(mwr), ifn(n).mac1key)
        THEN dropped("mac1", peer, HS, RTS)
        ELSE IF p = NULL THEN dropped("nosess", peer, HS, RTS)
        ELSE IF peer # NULL /\ peerof(n, peer).id # peerof(n, p).id
             THEN dropped("wrongpeer", peer, HS, RTS)
        ELSE authwgresp(n, fsn, lsn, mwr, sendfail, <<n, p>>, HS, RTS,
                        upgradehsresp(<<n, p>>, HS[<<n, p>>], mwr, FALSE))

\* handleifnmsg once createhsinit returned ci for MSGREQWGINIT
sendwginit(n, peerid, peer, sendfail, RTS, ci) ==
    LET frames == <<Frame(ifn(n).port, peerid, "MSGWGINIT", ci.mwi)>>
    IN  IF ci.ret = -1 THEN dropped("createhsinit", peer, ci.HS, RTS)
        ELSE replied(frames, written(frames, sendfail), peer, ci.HS, RTS, {ci.mwi}, {}, NoHs)

\* Receive and handle a message from interface n, tagged with peerid.
handleifnmsg(n, peerid, mtcode, msg, sessid, epriv, now, tail, sendfail, HS, RTS) ==
    LET peer == findifnpeerbyid(n, peerid)
    IN  IF peer = NULL THEN dropped("nopeerid", NULL, HS, RTS)
        ELSE IF mtcode = "MSGWGINIT"
             THEN handlewginit(peerof(n, peer).ifn, peer, NULL, NULL, msg, sessid, epriv,
                               tail, sendfail, HS, RTS)
        ELSE IF mtcode = "MSGWGRESP"
             THEN handlewgresp(peerof(n, peer).ifn, peer, NULL, NULL, msg, sendfail, HS, RTS)
        ELSE IF mtcode = "MSGREQWGINIT"
             THEN sendwginit(n, peerid, peer, sendfail, RTS,
                             createhsinit(<<n, peer>>, sessid, epriv[<<n, peer>>], now, HS, RTS))
        ELSE dropped("mtcode", peer, HS, RTS)

\* Receive and handle a message from the proxy, tagged with ifnid and the
\* local and foreign socket names.  The caller has excluded ifnid = ifnvsize.
handleproxymsg(ifnid, lsn, fsn, mtcode, msg, sessid, epriv, tail, sendfail, HS, RTS) ==
    IF ifnid > ifnvsize THEN dropped("ifnid", NULL, HS, RTS)
    ELSE IF mtcode = "MSGWGINIT"
         THEN handlewginit(ifnid, NULL, fsn, lsn, msg, sessid, epriv, tail, sendfail, HS, RTS)
    ELSE IF mtcode = "MSGWGRESP"
         THEN handlewgresp(ifnid, NULL, fsn, lsn, msg, sendfail, HS, RTS)
    ELSE dropped("mtcode", NULL, HS, RTS)

(* ----------------------- the scratch buffers -------------------------- *)

\* k, t0, tau, tmpc, tmpstat and tmpts are objects of static storage
\* duration: all zero when the process starts, and kept from one call to the
\* next.  T below is what they hold when an operation is entered, and each
\* operator yields what they hold when the operation returns.
NoScratch ==
    [k |-> ZeroKey, t0 |-> ZeroKey, tau |-> ZeroKey, tmpc |-> ZeroKey,
     tmpstat |-> ZeroKey, tmpts |-> ZeroKey]

explicit_bzero(buf) == ZeroKey

\* No operation reads k, tau, tmpc, tmpstat or tmpts before it has written
\* it, so between two messages the model does not keep what the buffers
\* hold: once a handler has written them they hold unspecified bytes, Junk,
\* for the next handler.  t0 is zero whenever kdfn has returned.
Leftover ==
    [k |-> Junk, t0 |-> ZeroKey, tau |-> Junk, tmpc |-> Junk, tmpstat |-> Junk,
     tmpts |-> Junk]
stale(T) == IF T = NoScratch THEN T ELSE Leftover

\* kdfn computes t0 and zeroes it before it returns
kdfn_scratch(T, iovoutlen, in, key) ==
    IF iovoutlen < 1 \/ iovoutlen > 255 THEN T
    ELSE [T EXCEPT !.t0 = explicit_bzero(hmac(in, key))]

\* upgradehsinit: tmpc and k are written by kdf1, dh and kdfn, tmpstat and
\* tmpts by aead when the static key and the timestamp are opened.  The
\* buffers hold what the last statement before the return has left in them.
upgradehsinit_scratch(T, n, mwi, peer, responder, HS) ==
    LET tmph0 == IF responder THEN ifn(n).pubkeyhash ELSE peerof(n, peer).pubkeyhash
        tmph1 == appendhash(tmph0, mwi.ephemeral)
        tmpc1 == kdf1(mwi.ephemeral, conshash)
        dh1 == IF responder THEN dh(ifn(n).privkey, mwi.ephemeral)
               ELSE dh(HS[<<n, peer>>].epriv, peerof(n, peer).pubkey)
        kd1 == kdfn(2, dh1.k, tmpc1).out
        tmpstat == aeadopen(mwi.stat, kd1[2], tmph1)
        found == findifnpeerbypubkey(n, tmpstat.out)
        p == IF responder THEN found ELSE peer
        stat == IF responder THEN mwi.stat ELSE aeadseal(ifn(n).pubkey, kd1[2], tmph1).out
        tmph2 == appendhash(tmph1, stat)
        kd2 == kdfn(2, peerof(n, p).dhsecret, kd1[1]).out
        tsopen == aeadopen(mwi.timestamp, kd2[2], tmph2)
    IN  IF dh1.ret = -1
        THEN [kdfn_scratch(T, 1, mwi.ephemeral, conshash) EXCEPT !.tmpc = tmpc1, !.k = dh1.k]
        ELSE IF responder /\ (tmpstat.ret = -1 \/ found = NULL
                              \/ (peer # NULL /\ found # peer))
             THEN [kdfn_scratch(T, 2, dh1.k, tmpc1)
                     EXCEPT !.tmpc = kd1[1], !.k = kd1[2], !.tmpstat = tmpstat.out]
        ELSE [kdfn_scratch(T, 2, peerof(n, p).dhsecret, kd1[1])
                EXCEPT !.tmpc = kd2[1], !.k = kd2[2],
                       !.tmpstat = IF responder THEN tmpstat.out ELSE @,
                       !.tmpts = IF responder THEN tsopen.out ELSE @]

\* upgradehsresp: tmpc, tau and k are written by kdf1, dh and kdfn
upgradehsresp_scratch(T, q, hsq, mwr, responder) ==
    LET peer == peerof(q[1], q[2])
        tmpc1 == kdf1(mwr.ephemeral, hsq.c)
        dh1 == IF responder THEN dh(hsq.epriv, hsq.epubi) ELSE dh(hsq.epriv, mwr.ephemeral)
        tmpc2 == kdf1(dh1.k, tmpc1)
        dh2 == IF responder THEN dh(hsq.epriv, peer.pubkey)
               ELSE dh(ifn(q[1]).privkey, mwr.ephemeral)
        tmpc3 == kdf1(dh2.k, tmpc2)
        kd == kdfn(3, peer.psk, tmpc3).out
    IN  IF dh1.ret = -1
        THEN [kdfn_scratch(T, 1, mwr.ephemeral, hsq.c) EXCEPT !.tmpc = tmpc1, !.k = dh1.k]
        ELSE IF dh2.ret = -1
             THEN [kdfn_scratch(T, 1, dh1.k, tmpc1) EXCEPT !.tmpc = tmpc2, !.k = dh2.k]
        ELSE [kdfn_scratch(T, 3, peer.psk, tmpc3)
                EXCEPT !.tmpc = kd[1], !.tau = kd[2], !.k = kd[3]]

\* makemsgsesskeys, called when the handshake was upgraded: kdfn once more
makemsgsesskeys_scratch(T, upgraded) ==
    IF upgraded THEN kdfn_scratch(T, 2, Empty, T.tmpc) ELSE T

\* createhsresp, called when upgradehsinit has accepted the init, T being
\* what upgradehsinit left, and makemsgsesskeys after it
createhsresp_scratch(T, upgraded, q, hsq, epub) ==
    IF ~upgraded THEN T
    ELSE makemsgsesskeys_scratch(
            upgradehsresp_scratch(T, q, hsq, [ephemeral |-> epub], TRUE),
            upgradehsresp(q, hsq, [ephemeral |-> epub, empty |-> Junk], TRUE).ret # -1)

\* handlewginit: upgradehsinit and, for an init it accepts, createhsresp
\* and makemsgsesskeys; u is what upgradehsinit returns
handlewginit_scratch(T, n, peer, mwi, epriv, HS, u) ==
    IF ~ws_validmac(mwi.mac1, Mac1DataInit(mwi), ifn(n).mac1key) THEN T
    ELSE createhsresp_scratch(upgradehsinit_scratch(T, n, mwi, peer, TRUE, HS),
                              u.ret # -1, <<n, u.peer>>,
                              [u.HS[<<n, u.peer>>] EXCEPT !.epriv = epriv[<<n, u.peer>>]],
                              Pub(epriv[<<n, u.peer>>]))

\* handlewgresp: upgradehsresp and, for a response it accepts,
\* makemsgsesskeys
handlewgresp_scratch(T, n, peer, mwr, HS) ==
    LET p == findifnpeerbysessid(n, mwr.receiver, HS)
        q == <<n, p>>
    IN  IF ~ws_validmac(mwr.mac1, Mac1DataResp(mwr), ifn(n).mac1key) THEN T
        ELSE IF p = NULL THEN T
        ELSE IF peer # NULL /\ peerof(n, peer).id # peerof(n, p).id THEN T
        ELSE makemsgsesskeys_scratch(upgradehsresp_scratch(T, q, HS[q], mwr, FALSE),
                                     upgradehsresp(q, HS[q], mwr, FALSE).ret # -1)

\* handleifnmsg
handleifnmsg_scratch(T, n, peerid, mtcode, msg, epriv, tail, HS, RTS) ==
    LET peer == findifnpeerbyid(n, peerid)
        q == <<n, peer>>
    IN  IF peer = NULL THEN T
        ELSE IF mtcode = "MSGWGINIT"
             THEN handlewginit_scratch(T, n, peer, msg, epriv, HS,
                                       upgradehsinit(n, msg, peer, TRUE, HS, RTS, tail))
        ELSE IF mtcode = "MSGWGRESP" THEN handlewgresp_scratch(T, n, peer, msg, HS)
        ELSE IF mtcode = "MSGREQWGINIT"
             THEN upgradehsinit_scratch(T, n, [ephemeral |-> Pub(epriv[q])], peer, FALSE,
                                        [HS EXCEPT ![q].epriv = epriv[q]])
        ELSE T

\* handleproxymsg
handleproxymsg_scratch(T, ifnid, mtcode, msg, epriv, tail, HS, RTS) ==
    IF ifnid > ifnvsize THEN T
    ELSE IF mtcode = "MSGWGINIT"
         THEN handlewginit_scratch(T, ifnid, NULL, msg, epriv, HS,
                                   upgradehsinit(ifnid, msg, NULL, TRUE, HS, RTS, tail))
    ELSE IF mtcode = "MSGWGRESP" THEN handlewgresp_scratch(T, ifnid, NULL, msg, HS)
    ELSE T

(* ------------------------------ inputs -------------------------------- *)

SessIds == 0..MaxSessId

\* external TAI64N labels: the low byte of the seconds is byte 8, the low
\* byte of the nanoseconds byte 12
TsBytes(i) == [j \in 1..TSLEN |-> IF j = 8 THEN i \div 2 ELSE IF j = TSLEN THEN i % 2 ELSE 0]
Timestamps == {TsBytes(i) : i \in 1..MaxTs}

\* what may follow recvts in the peer's memory
Tails == {Zeros(TAGLEN), [j \in 1..TAGLEN |-> 219], [j \in 1..TAGLEN |-> IF j = TAGLEN THEN 1 ELSE 0]}

\* the socket names the proxy reports
LocalAddrs == {51820}
ForeignAddrs == {40000}

\* the ordinal of the send that fails in a handler; 0: every send succeeds
SendFails == IF io = "ok" THEN {0} ELSE 0..3

IsInit(m) == le32toh(m.type) = 1
MtcodeOf(m) == IF IsInit(m) THEN "MSGWGINIT" ELSE "MSGWGRESP"

Bad(x) == <<"bad", x>>

\* mac1 as a sender who knows the public key of interface n computes it
Remac(m, n) ==
    [m EXCEPT !.mac1 = ws_mac(IF IsInit(m) THEN Mac1DataInit(m) ELSE Mac1DataResp(m),
                              ifn(n).mac1key)]

InitTampers == {"none", "mac1", "remac", "ephemeral", "stat", "timestamp"}
RespTampers == {"none", "mac1", "remac", "ephemeral", "empty", "receiver"}
TampersOf(m) == IF IsInit(m) THEN InitTampers ELSE RespTampers

\* message m as it arrives at interface n after the network changed it
Tamper(m, how, n) ==
    CASE how = "none" -> m
      [] how = "mac1" -> [m EXCEPT !.mac1 = Bad(m.mac1)]
      [] how = "remac" -> Remac(m, n)
      [] how = "ephemeral" -> Remac([m EXCEPT !.ephemeral = LowOrder], n)
      [] how = "stat" -> Remac([m EXCEPT !.stat = Bad(m.stat)], n)
      [] how = "timestamp" -> Remac([m EXCEPT !.timestamp = Bad(m.timestamp)], n)
      [] how = "empty" -> Remac([m EXCEPT !.empty = Bad(m.empty)], n)
      [] how = "receiver" -> Remac([m EXCEPT !.receiver = (m.receiver + 1) % (MaxSessId + 1)], n)

(* ------------------------------ startup ------------------------------- *)

\* interfaces and peers per interface of the configurations the master is
\* started with
MaxIfns == 2
MaxNpeers == 2

\* A configuration lists the interfaces, each with its private key and the
\* private keys of the holders of its peers' public keys.
TheConfig == [i \in 1..ifnvsize |-> [priv |-> StaticPriv[i], peers |-> PeerPrivs[i]]]

Configs ==
    UNION {{[i \in 1..k |-> [priv |-> i, peers |-> [j \in 1..f[i] |-> k + j]]] :
              f \in [1..k -> 0..MaxNpeers]} : k \in 0..MaxIfns}

\* The descriptors.  A descriptor is named by a number, the same in every
\* process that holds it; which numbers socketpair hands out is not modelled.
Std == {0, 1, 2}
stdopen == Cardinality(Std)

mastwithifn(n) == 10 * (n + 1)
ifnwithmast(n) == 10 * (n + 1) + 1
enclwithifn(n) == IfnPort(n)
ifnwithencl(n) == 10 * (n + 1) + 2
proxwithifn(n) == 10 * (n + 1) + 3
ifnwithprox(n) == 10 * (n + 1) + 4
mastwithencl == 100
enclwithmast == 101
mastwithprox == 102
proxwithmast == 103
enclwithprox == pport
proxwithencl == 104
mastmast == 105

\* the processes the master forks
Encl == <<"enclave", 0>>
Prox == <<"proxy", 0>>
Ifn(n) == <<"ifn", n>>
Kids(c) == {Encl, Prox} \cup {Ifn(n) : n \in 0..(Len(c) - 1)}

\* the startup messages of the master to the enclave
sinit(c) == [type |-> "SINIT", proxport |-> enclwithprox, nifns |-> Len(c)]

sifn(c, n) ==
    LET priv == c[n + 1].priv
    IN  [type |-> "SIFN", ifnid |-> n, ifnport |-> enclwithifn(n), privkey |-> priv,
         pubkey |-> Pub(priv), pubkeyhash |-> ws_hash(considhash, Pub(priv)),
         mac1key |-> ws_hash(Const("mac1----"), Pub(priv)),
         cookiekey |-> ws_hash(Const("cookie--"), Pub(priv)),
         npeers |-> Len(c[n + 1].peers)]

speer_from1(c, n, m) ==
    LET rpriv == c[n + 1].peers[m + 1]
    IN  [type |-> "SPEER", ifnid |-> n, peerid |-> m + 1, psk |-> PskOf(c[n + 1].priv, rpriv),
         peerkey |-> Pub(rpriv), mac1key |-> ws_hash(Const("mac1----"), Pub(rpriv))]
speer(c, n, m) ==
    LET rpriv == c[n + 1].peers[m + 1]
    IN  [type |-> "SPEER", ifnid |-> n, peerid |-> m, psk |-> PskOf(c[n + 1].priv, rpriv),
         peerkey |-> Pub(rpriv), mac1key |-> ws_hash(Const("mac1----"), Pub(rpriv))]

seos == [type |-> "SEOS"]

\* what sendconfig_enclave writes for the interfaces from n on
RECURSIVE sendifns(_, _)
sendifns(c, n) ==
    IF n >= Len(c) THEN <<>>
    ELSE <<sifn(c, n)>> \o [j \in 1..Len(c[n + 1].peers) |-> speer(c, n, j - 1)]
         \o sendifns(c, n + 1)

\* sendconfig_enclave: SINIT, then every interface followed by its peers
sendconfig_enclave(c) == <<sinit(c)>> \o sendifns(c, 0)

\* The message buffer of the master, union smsg: one storage for the
\* members init, ifn, peer, cidraddr and eos, every member starting at its
\* first slot.  A slot holds one field; a zeroed slot holds the all-zero
\* value, which in a key field is the null key.  A slot holds a private key as
\* Key, any other key as the value it has in the enclave, a number, a
\* descriptor or a count as Num, a user or group as Id, a name or an address
\* as Str.  The fields of a member are in the order in which master.c
\* assigns them; the zeroing and the sending below cover a whole member and
\* do not depend on that order.
Key(priv) == <<"key", priv>>
Num(x) == <<"int", x>>
Id(kind, n) == <<kind, n>>
Str(x) == <<"str", x>>

Fields ==
    [init |-> <<"background", "verbose", "uid", "gid", "enclport", "proxport", "nifns">>,
     ifn |-> <<"ifnid", "ifnport", "ifname", "ifdesc", "privkey", "pubkey", "pubkeyhash",
               "mac1key", "cookiekey", "nifaddrs", "nlistenaddrs", "npeers">>,
     peer |-> <<"ifnid", "peerid", "name", "nallowedips", "fsa", "psk", "peerkey",
                "mac1key">>,
     cidraddr |-> <<"ifnid", "peerid", "prefixlen", "addr">>,
     eos |-> <<>>]

sizeof(T) == Len(Fields[T])
sizeof_smsg == CHOOSE k \in {sizeof(T) : T \in DOMAIN Fields} :
                  \A T \in DOMAIN Fields : sizeof(T) <= k

\* memset(buf, 0, len) without effect: the zeroing left out
memset_left(buf, len) == buf
\* memset(buf, 0, len)
memset(buf, len) == [i \in 1..Len(buf) |-> IF i <= len THEN ZeroKey ELSE buf[i]]
\* explicit_bzero(&smsg, len): a memset the compiler does not remove
bzero_smsg(buf, len) == memset(buf, len)

\* the static buffer of a process image that has just been executed
smsg0 == [i \in 1..sizeof_smsg |-> ZeroKey]

\* the assignments r to the fields of member T
assign(buf, T, r) ==
    [i \in 1..Len(buf) |->
       IF i <= sizeof(T) /\ Fields[T][i] \in DOMAIN r THEN r[Fields[T][i]] ELSE buf[i]]

\* wire_sendmsg(port, type, &smsg.T, sizeof(smsg.T)): the datagram
wire_sendmsg(buf, type, T) == [type |-> type, body |-> SubSeq(buf, 1, sizeof(T))]

\* memset(&smsg.T, 0, sizeof(smsg.T)), the assignments r, wire_sendmsg: one
\* message of a sendconfig function, S the buffer and the messages so far
sendmember(S, it) ==
    LET b == assign(memset(S.buf, sizeof(it.T)), it.T, it.r)
    IN  [buf |-> b, msgs |-> Append(S.msgs, wire_sendmsg(b, it.type, it.T))]

RECURSIVE sendmembers(_, _)
sendmembers(S, its) ==
    IF its = <<>> THEN S ELSE sendmembers(sendmember(S, Head(its)), Tail(its))

\* the messages and the explicit_bzero at the end of a sendconfig function
sendall(buf, its) ==
    LET S == sendmembers([buf |-> buf, msgs |-> <<>>], its)
    IN  [buf |-> bzero_smsg(S.buf, sizeof_smsg), msgs |-> S.msgs]

\* Every interface of a configuration has one address and listens on one
\* address, and every peer has one allowed address.
ifname(n) == Str(<<"ifname", n>>)
ifdesc(n) == Str(<<"ifdesc", n>>)
ifaddrs(n) == <<Str(<<"ifaddr", n>>)>>
listenaddrs(n) == <<Str(<<"listen", n>>)>>
allowedips(n, m) == <<Str(<<"allowed", n, m>>)>>

init_common == [background |-> Id("background", 1), verbose |-> Id("verbose", 1)]

\* sendconfig_enclave on the buffer: SINIT, SIFN and SPEER
enclave_ifn(c, n) ==
    LET priv == c[n + 1].priv
    IN  <<[T |-> "ifn", type |-> "SIFN",
           r |-> [ifnid |-> Num(n), ifnport |-> Num(enclwithifn(n)), ifname |-> ifname(n),
                  ifdesc |-> ifdesc(n), privkey |-> Key(priv), pubkey |-> Pub(priv),
                  pubkeyhash |-> ws_hash(considhash, Pub(priv)),
                  mac1key |-> ws_hash(Const("mac1----"), Pub(priv)),
                  cookiekey |-> ws_hash(Const("cookie--"), Pub(priv)),
                  npeers |-> Num(Len(c[n + 1].peers))]]>>
        \o [m \in 1..Len(c[n + 1].peers) |->
              [T |-> "peer", type |-> "SPEER",
               r |-> [ifnid |-> Num(n), peerid |-> Num(m - 1),
                      psk |-> PskOf(priv, c[n + 1].peers[m]),
                      peerkey |-> Pub(c[n + 1].peers[m]),
                      mac1key |-> ws_hash(Const("mac1----"), Pub(c[n + 1].peers[m]))]]]

RECURSIVE enclave_ifns(_, _)
enclave_ifns(c, n) ==
    IF n >= Len(c) THEN <<>> ELSE enclave_ifn(c, n) \o enclave_ifns(c, n + 1)

sendconfig_enclave_smsg(c, buf) ==
    sendall(buf,
            <<[T |-> "init", type |-> "SINIT",
               r |-> init_common @@ [uid |-> Id("uid", NULL), gid |-> Id("gid", NULL),
                                     proxport |-> Num(enclwithprox), nifns |-> Num(Len(c))]]>>
            \o enclave_ifns(c, 0))

\* sendconfig_proxy: SINIT, and SIFN and the listen addresses of every
\* interface
proxy_ifn(c, n) ==
    LET priv == c[n + 1].priv
    IN  <<[T |-> "ifn", type |-> "SIFN",
           r |-> [ifnid |-> Num(n), ifnport |-> Num(proxwithifn(n)),
                  nlistenaddrs |-> Num(Len(listenaddrs(n))), ifname |-> ifname(n),
                  mac1key |-> ws_hash(Const("mac1----"), Pub(priv)),
                  cookiekey |-> ws_hash(Const("cookie--"), Pub(priv)),
                  npeers |-> Num(Len(c[n + 1].peers))]]>>
        \o [m \in 1..Len(listenaddrs(n)) |->
              [T |-> "cidraddr", type |-> "SCIDRADDR",
               r |-> [ifnid |-> Num(n), addr |-> listenaddrs(n)[m]]]]

RECURSIVE proxy_ifns(_, _)
proxy_ifns(c, n) ==
    IF n >= Len(c) THEN <<>> ELSE proxy_ifn(c, n) \o proxy_ifns(c, n + 1)

sendconfig_proxy(c, buf) ==
    sendall(buf,
            <<[T |-> "init", type |-> "SINIT",
               r |-> init_common @@ [uid |-> Id("uid", NULL), gid |-> Id("gid", NULL),
                                     enclport |-> Num(proxwithencl), nifns |-> Num(Len(c))]]>>
            \o proxy_ifns(c, 0))

\* sendconfig_ifn: SINIT, SIFN, the addresses of the interface, its listen
\* addresses, and every peer followed by its allowed addresses
ifn_peer(c, n, m) ==
    <<[T |-> "peer", type |-> "SPEER",
       r |-> [ifnid |-> Num(n), peerid |-> Num(m), name |-> Str(<<"peer", n, m>>),
              nallowedips |-> Num(Len(allowedips(n, m))), fsa |-> Str(<<"fsa", n, m>>)]]>>
    \o [j \in 1..Len(allowedips(n, m)) |->
          [T |-> "cidraddr", type |-> "SCIDRADDR",
           r |-> [ifnid |-> Num(n), peerid |-> Num(m), prefixlen |-> Id("prefixlen", 1),
                  addr |-> allowedips(n, m)[j]]]]

RECURSIVE ifn_peers(_, _, _)
ifn_peers(c, n, m) ==
    IF m >= Len(c[n + 1].peers) THEN <<>> ELSE ifn_peer(c, n, m) \o ifn_peers(c, n, m + 1)

sendconfig_ifn(c, n, buf) ==
    LET priv == c[n + 1].priv
    IN  sendall(buf,
            <<[T |-> "init", type |-> "SINIT",
               r |-> init_common @@ [uid |-> Id("uid", n), gid |-> Id("gid", n),
                                     enclport |-> Num(ifnwithencl(n)),
                                     proxport |-> Num(ifnwithprox(n))]],
              [T |-> "ifn", type |-> "SIFN",
               r |-> [ifnid |-> Num(n), ifname |-> ifname(n), ifdesc |-> ifdesc(n),
                      mac1key |-> ws_hash(Const("mac1----"), Pub(priv)),
                      cookiekey |-> ws_hash(Const("cookie--"), Pub(priv)),
                      nifaddrs |-> Num(Len(ifaddrs(n))),
                      nlistenaddrs |-> Num(Len(listenaddrs(n))),
                      npeers |-> Num(Len(c[n + 1].peers))]]>>
            \o [j \in 1..Len(ifaddrs(n)) |->
                  [T |-> "cidraddr", type |-> "SCIDRADDR",
                   r |-> [ifnid |-> Num(n), prefixlen |-> Id("prefixlen", 1),
                          addr |-> ifaddrs(n)[j]]]]
            \o [j \in 1..Len(listenaddrs(n)) |->
                  [T |-> "cidraddr", type |-> "SCIDRADDR",
                   r |-> [ifnid |-> Num(n), addr |-> listenaddrs(n)[j]]]]
            \o ifn_peers(c, n, 0))

\* signal_eos on the buffer
signal_eos(buf) ==
    LET b == memset(buf, sizeof_smsg)
    IN  [buf |-> b, msgs |-> <<wire_sendmsg(b, "SEOS", "eos")>>]

\* struct ifn as recvconfig fills it from SIFN
storeifn(msg) ==
    [id |-> msg.ifnid, port |-> msg.ifnport, privkey |-> msg.privkey, pubkey |-> msg.pubkey,
     pubkeyhash |-> msg.pubkeyhash, mac1key |-> msg.mac1key, cookiekey |-> msg.cookiekey,
     peerssize |-> msg.npeers]

\* struct peer m of interface I as recvconfig fills it from SPEER
storepeer_ownkey(I, m, msg) ==
    [id |-> m, ifn |-> I.id, pubkey |-> msg.peerkey,
     pubkeyhash |-> appendhash(considhash, msg.peerkey), mac1key |-> msg.mac1key,
     dhsecret |-> dh(I.privkey, I.pubkey).k, psk |-> msg.psk]
storepeer(I, m, msg) ==
    [id |-> m, ifn |-> I.id, pubkey |-> msg.peerkey,
     pubkeyhash |-> appendhash(considhash, msg.peerkey), mac1key |-> msg.mac1key,
     dhsecret |-> dh(I.privkey, msg.peerkey).k, psk |-> msg.psk]

\* the table recvconfig has built when it has read the whole of configuration c
Stored(c) ==
    [i \in 1..Len(c) |->
       [ifn |-> storeifn(sifn(c, i - 1)),
        peers |-> [j \in 1..Len(c[i].peers) |->
                     storepeer(storeifn(sifn(c, i - 1)), j - 1, speer(c, i - 1, j - 1))]]]

\* the steps of enclave_init in the order of the code; recvconfig is at
\* SINIT, SIFN, SPEER or SEOS, the message it reads next
Steps == <<"fds", "limits", "signals", "chroot", "ids", "pledge", "serve">>
StepAfter(at) == Steps[1 + CHOOSE j \in 1..(Len(Steps) - 1) : Steps[j] = at]

\* the enclave before it is executed, and once it serves
NotStarted ==
    [at |-> "none", n |-> 0, m |-> 0, nifns |-> 0, pport |-> NULL, masterport |-> NULL,
     err |-> "", read |-> <<>>, done |-> <<>>]
Serving ==
    [at |-> "serve", n |-> 0, m |-> 0, nifns |-> ifnvsize, pport |-> pport,
     masterport |-> enclwithmast, err |-> "",
     read |-> [j \in 1..Len(sendconfig_enclave(TheConfig)) |->
                 sendconfig_enclave(TheConfig)[j].type] \o <<"SEOS">>,
     done |-> <<"SEOS", "fds", "limits", "signals", "chroot", "ids", "pledge">>]

\* the variables of the enclave that its startup leaves alone
servevars == <<hs, recvts, sent, net, last, keylog, accepted, nkeys, left, who, io,
               inq, rd, hup, closed, doterm, ev, scratch>>

\* exit(1), and abort() of a failed assertion
exits(B, why) == [B EXCEPT !.at = "exit", !.err = why]
aborts(B) == [B EXCEPT !.at = "abort", !.err = "assert"]

\* mtcode != SINIT and the like
wrongtype_never(mtcode, expected) == FALSE
wrongtype(mtcode, expected) == mtcode # expected

\* where recvconfig goes on once interface n is complete
nextifn(B) ==
    [B EXCEPT !.n = B.n + 1, !.m = 0,
              !.at = IF B.n + 1 < B.nifns THEN "SIFN" ELSE "SEOS"]

\* recvconfig reads msg while it is at B.at and has stored V.  An assertion
\* that fails ends the process unless the program was built with NDEBUG.
recvconfig(B, V, msg, ndebug) ==
    LET R == [B EXCEPT !.read = Append(B.read, msg.type)]
    IN  IF wrongtype(msg.type, B.at) THEN [boot |-> exits(B, "type"), ifnv |-> V]
        ELSE IF B.at = "SINIT"
             THEN [boot |-> [R EXCEPT !.pport = msg.proxport, !.nifns = msg.nifns, !.n = 0,
                                      !.at = IF msg.nifns > 0 THEN "SIFN" ELSE "SEOS"],
                   ifnv |-> <<>>]
        ELSE IF B.at = "SIFN"
             THEN IF B.n # msg.ifnid /\ ~ndebug THEN [boot |-> aborts(B), ifnv |-> V]
                  ELSE [boot |-> IF msg.npeers > 0 THEN [R EXCEPT !.m = 0, !.at = "SPEER"]
                                 ELSE nextifn(R),
                        ifnv |-> Append(V, [ifn |-> storeifn(msg), peers |-> <<>>])]
        ELSE IF B.at = "SPEER"
             THEN IF (msg.ifnid # B.n \/ msg.peerid # B.m) /\ ~ndebug
                  THEN [boot |-> aborts(B), ifnv |-> V]
                  ELSE [boot |-> IF B.m + 1 < V[B.n + 1].ifn.peerssize
                                 THEN [R EXCEPT !.m = B.m + 1] ELSE nextifn(R),
                        ifnv |-> [V EXCEPT ![B.n + 1].peers =
                                    Append(@, storepeer(V[B.n + 1].ifn, B.m, msg))]]
        ELSE [boot |-> [R EXCEPT !.at = "fds", !.n = 0, !.m = 0, !.done = <<"SEOS">>],
              ifnv |-> V]

\* enclave_serv runs once enclave_init returned
pcof(B) ==
    IF B.at = "serve" THEN "kevent"
    ELSE IF B.at = "exit" THEN "exit"
    ELSE IF B.at = "abort" THEN "fault"
    ELSE "init"

RecvStages == {"SINIT", "SIFN", "SPEER", "SEOS"}

\* the master has exited: its end of every channel is closed
MasterGone == mast.pc \in {"exit", "killed"}

\* recvconfig receives the next startup message; an allocation can fail
RecvConfig(nomem) ==
    /\ boot.at \in RecvStages
    /\ masterq # <<>>
    /\ LET r == recvconfig(boot, ifnv, Head(masterq), mast.ndebug)
       IN  IF nomem /\ boot.at \in {"SINIT", "SIFN", "SPEER"}
              /\ ~wrongtype(Head(masterq).type, boot.at)
           THEN boot' = exits(boot, "nomem") /\ ifnv' = ifnv /\ pc' = "exit"
           ELSE boot' = r.boot /\ ifnv' = r.ifnv /\ pc' = pcof(r.boot)
    /\ masterq' = Tail(masterq)
    /\ UNCHANGED <<mast, kids>>
    /\ UNCHANGED servevars

\* wire_recvmsg fails: nothing is left to read and the master is gone
RecvFails ==
    /\ boot.at \in RecvStages
    /\ masterq = <<>>
    /\ MasterGone
    /\ boot' = exits(boot, "recv")
    /\ pc' = "exit"
    /\ UNCHANGED <<ifnv, masterq, mast, kids>>
    /\ UNCHANGED servevars

\* the descriptor check of enclave_init, fds being the descriptors the
\* process holds
fdsok(B, V, fds) ==
    /\ B.masterport \in fds
    /\ B.pport \in fds
    /\ \A i \in 1..Len(V) : V[i].ifn.port \in fds
    /\ Cardinality(fds) = Cardinality(fds \cap Std) + 2 + B.nifns

\* a step of enclave_init after recvconfig that succeeds or fails
initstep_goon(B, ok) ==
    [B EXCEPT !.at = StepAfter(B.at), !.done = IF ok THEN Append(B.done, B.at) ELSE B.done]
initstep(B, ok) ==
    IF ok THEN [B EXCEPT !.at = StepAfter(B.at), !.done = Append(B.done, B.at)]
    ELSE exits(B, B.at)

\* enclave_init after recvconfig: the descriptor check, the resource limits,
\* the signal handlers, chroot, the change of group and user, pledge
enclave_init(ok) ==
    /\ boot.at \in {"fds", "limits", "signals", "chroot", "ids", "pledge"}
    /\ boot.at = "fds" => ok = fdsok(boot, ifnv, kids[Encl].fds)
    /\ boot' = initstep(boot, ok)
    /\ pc' = pcof(initstep(boot, ok))
    /\ UNCHANGED <<ifnv, masterq, mast, kids>>
    /\ UNCHANGED servevars

\* the descriptors of the three channels of interface n
ifnends(n) == {mastwithifn(n), ifnwithmast(n), enclwithifn(n), ifnwithencl(n),
               proxwithifn(n), ifnwithprox(n)}

NIfns == Len(mast.cfg)

\* assert(getdtablecount() == count) in a process that holds fds: what the
\* process does next, abort() unless it was built with NDEBUG
assert_count(fds, count, ndebug) ==
    IF Cardinality(fds) = count \/ ndebug THEN "exec" ELSE "abort"

\* logexit(1, ...): the master exits and its descriptors are closed
MasterExits == mast' = [mast EXCEPT !.pc = "exit", !.fds = {}]

\* the master has written msgs to child k when a write fails and it exits
MasterWrote(k, msgs) ==
    mast' = [mast EXCEPT !.pc = "exit", !.fds = {}, !.wrote[k] = msgs]

\* One turn of the loop that forks the interfaces: three socketpairs, fork,
\* and the parent closes the ends of the child.
ForkIfn(ok) ==
    /\ mast.pc = "ifn"
    /\ IF ok
       THEN /\ mast' = [mast EXCEPT
                          !.fds = (mast.fds \cup ifnends(mast.n))
                                  \ {ifnwithmast(mast.n), ifnwithencl(mast.n),
                                     ifnwithprox(mast.n)},
                          !.n = mast.n + 1,
                          !.pc = IF mast.n + 1 < NIfns THEN "ifn" ELSE "encl"]
            /\ kids' = [kids EXCEPT ![Ifn(mast.n)] =
                          [st |-> "forked", fds |-> mast.fds \cup ifnends(mast.n)]]
       ELSE MasterExits /\ kids' = kids
    /\ UNCHANGED <<ifnv, boot, masterq, pc>>
    /\ UNCHANGED servevars

\* the descriptors the child of interface n closes:
\* for (m = 0; m <= n; m++) { close(ifnv[n]->mastwithifn); ... }
ifnchild_closes(n) ==
    UNION {{mastwithifn(n), enclwithifn(n), proxwithifn(n)} : m \in 0..n}

\* the child of interface n closes descriptors, checks their number and
\* executes the program with -I
IfnChild(n) ==
    /\ kids[Ifn(n)].st = "forked"
    /\ kids' = [kids EXCEPT ![Ifn(n)] =
                  [st |-> assert_count(kids[Ifn(n)].fds \ ifnchild_closes(n), stdopen + 3,
                                       mast.ndebug),
                   fds |-> kids[Ifn(n)].fds \ ifnchild_closes(n)]]
    /\ UNCHANGED <<ifnv, boot, masterq, mast, pc>>
    /\ UNCHANGED servevars

\* the channels between master, enclave and proxy
coreends == {mastwithencl, enclwithmast, mastwithprox, proxwithmast, enclwithprox,
             proxwithencl}

\* the master makes the channels between master, enclave and proxy, forks
\* the enclave and closes the ends of the enclave
ForkEncl(ok) ==
    /\ mast.pc = "encl"
    /\ IF ok
       THEN /\ mast' = [mast EXCEPT
                          !.fds = (mast.fds \cup coreends)
                                  \ ({enclwithmast, enclwithprox}
                                     \cup {enclwithifn(n) : n \in 0..(NIfns - 1)}),
                          !.pc = "prox"]
            /\ kids' = [kids EXCEPT ![Encl] =
                          [st |-> "forked", fds |-> mast.fds \cup coreends]]
       ELSE MasterExits /\ kids' = kids
    /\ UNCHANGED <<ifnv, boot, masterq, pc>>
    /\ UNCHANGED servevars

\* the descriptors the child that becomes the enclave closes
enclchild_closes_encl(nifns) ==
    {mastwithifn(n) : n \in 0..(nifns - 1)} \cup {enclwithifn(n) : n \in 0..(nifns - 1)}
    \cup {mastwithprox, mastwithencl, proxwithmast, proxwithencl}
enclchild_closes(nifns) ==
    {mastwithifn(n) : n \in 0..(nifns - 1)} \cup {proxwithifn(n) : n \in 0..(nifns - 1)}
    \cup {mastwithprox, mastwithencl, proxwithmast, proxwithencl}

\* the child closes descriptors, checks their number and executes the
\* program with -E enclwithmast: enclave_init starts with recvconfig
EnclChild ==
    /\ kids[Encl].st = "forked"
    /\ LET fds == kids[Encl].fds \ enclchild_closes(NIfns)
           st == assert_count(fds, stdopen + 2 + NIfns, mast.ndebug)
       IN  /\ kids' = [kids EXCEPT ![Encl] = [st |-> st, fds |-> fds]]
           /\ boot' = IF st = "exec"
                      THEN [boot EXCEPT !.at = "SINIT", !.masterport = enclwithmast]
                      ELSE boot
    /\ UNCHANGED <<ifnv, masterq, mast, pc>>
    /\ UNCHANGED servevars

\* the master forks the proxy and closes the ends of the proxy
ForkProx(ok) ==
    /\ mast.pc = "prox"
    /\ IF ok
       THEN /\ mast' = [mast EXCEPT
                          !.fds = mast.fds \ ({proxwithmast, proxwithencl}
                                              \cup {proxwithifn(n) : n \in 0..(NIfns - 1)}),
                          !.pc = "cfgencl"]
            /\ kids' = [kids EXCEPT ![Prox] = [st |-> "forked", fds |-> mast.fds]]
       ELSE MasterExits /\ kids' = kids
    /\ UNCHANGED <<ifnv, boot, masterq, pc>>
    /\ UNCHANGED servevars

\* the child closes descriptors, checks their number and executes the
\* program with -P
ProxChild ==
    /\ kids[Prox].st = "forked"
    /\ LET fds == kids[Prox].fds \ ({mastwithifn(n) : n \in 0..(NIfns - 1)}
                                    \cup {mastwithencl, mastwithprox})
       IN  kids' = [kids EXCEPT ![Prox] =
                      [st |-> assert_count(fds, stdopen + 2 + NIfns, mast.ndebug),
                       fds |-> fds]]
    /\ UNCHANGED <<ifnv, boot, masterq, mast, pc>>
    /\ UNCHANGED servevars

\* child k has terminated: it failed an assertion, or it is the enclave and
\* has called exit or abort
Ended(k) ==
    kids[k].st = "abort" \/ (k = Encl /\ boot.at \in {"exit", "abort"})

\* child k runs
Remains(k) == kids[k].st \in {"forked", "exec"} /\ ~Ended(k)

\* sendconfig_enclave writes the configuration, or the first k messages of
\* it before a write fails; a write fails when the other end of the
\* socketpair is closed, as it is when the child has terminated
SendConfigEnclave(k) ==
    /\ mast.pc = "cfgencl"
    /\ Ended(Encl) => k < Len(sendconfig_enclave(mast.cfg))
    /\ masterq' = masterq \o SubSeq(sendconfig_enclave(mast.cfg), 1, k)
    /\ LET S == sendconfig_enclave_smsg(mast.cfg, mast.smsg)
       IN  IF k = Len(sendconfig_enclave(mast.cfg))
           THEN mast' = [mast EXCEPT !.pc = "cfgprox", !.sentto = @ \cup {Encl},
                                     !.smsg = S.buf, !.wrote[Encl] = S.msgs]
           ELSE MasterWrote(Encl, SubSeq(S.msgs, 1, k))
    /\ UNCHANGED <<ifnv, boot, kids, pc>>
    /\ UNCHANGED servevars

\* sendconfig_proxy, or the messages of it that are written before a write
\* fails
SendConfigProxy(ok) ==
    /\ mast.pc = "cfgprox"
    /\ Ended(Prox) => ~ok
    /\ LET S == sendconfig_proxy(mast.cfg, mast.smsg)
       IN  IF ok
           THEN mast' = [mast EXCEPT !.sentto = @ \cup {Prox}, !.n = 0,
                                     !.pc = IF NIfns > 0 THEN "cfgifn" ELSE "reexec",
                                     !.smsg = S.buf, !.wrote[Prox] = S.msgs]
           ELSE \E j \in 0..(Len(S.msgs) - 1) : MasterWrote(Prox, SubSeq(S.msgs, 1, j))
    /\ UNCHANGED <<ifnv, boot, masterq, kids, pc>>
    /\ UNCHANGED servevars

\* sendconfig_ifn(n), or the messages of it that are written before a write
\* fails
SendConfigIfn(ok) ==
    /\ mast.pc = "cfgifn"
    /\ Ended(Ifn(mast.n)) => ~ok
    /\ LET S == sendconfig_ifn(mast.cfg, mast.n, mast.smsg)
       IN  IF ok
           THEN mast' = [mast EXCEPT !.sentto = @ \cup {Ifn(mast.n)}, !.n = mast.n + 1,
                                     !.pc = IF mast.n + 1 < NIfns THEN "cfgifn"
                                            ELSE "reexec",
                                     !.smsg = S.buf, !.wrote[Ifn(mast.n)] = S.msgs]
           ELSE \E j \in 0..(Len(S.msgs) - 1) :
                   MasterWrote(Ifn(mast.n), SubSeq(S.msgs, 1, j))
    /\ UNCHANGED <<ifnv, boot, masterq, kids, pc>>
    /\ UNCHANGED servevars

\* the master hands its descriptors to its future self over mastmast and
\* executes the program with -M
ReExec(ok) ==
    /\ mast.pc = "reexec"
    /\ IF ok THEN mast' = [mast EXCEPT !.fds = @ \cup {mastmast}, !.pc = "M",
                                       !.smsg = smsg0]
       ELSE MasterExits
    /\ UNCHANGED <<ifnv, boot, masterq, kids, pc>>
    /\ UNCHANGED servevars

\* the new master: chroot and chdir, pledge, and what it reads from mastmast
MasterM(step, ok) ==
    /\ mast.pc = "M"
    /\ step = (IF "chroot" \notin mast.jail THEN "chroot"
               ELSE IF "pledge" \notin mast.jail THEN "pledge" ELSE "read")
    /\ IF ~ok THEN MasterExits
       ELSE IF step = "read"
            THEN mast' = [mast EXCEPT !.fds = @ \ {mastmast}, !.pc = "eos"]
       ELSE mast' = [mast EXCEPT !.jail = @ \cup {step}]
    /\ UNCHANGED <<ifnv, boot, masterq, kids, pc>>
    /\ UNCHANGED servevars

\* whom the master signals after it signalled those in done
eosnext_ifnfirst(done, nifns) ==
    IF Len(done) < nifns THEN Ifn(Len(done))
    ELSE IF Len(done) = nifns THEN Encl ELSE Prox
eosnext(done, nifns) ==
    IF Len(done) = 0 THEN Encl
    ELSE IF Len(done) = 1 THEN Prox
    ELSE Ifn(Len(done) - 2)

\* signal_eos: the next process is sent SEOS
SignalEos(ok) ==
    /\ mast.pc = "eos"
    /\ Ended(eosnext(mast.eos, NIfns)) => ~ok
    /\ IF ok
       THEN /\ mast' = [mast EXCEPT !.eos = Append(@, eosnext(mast.eos, NIfns)),
                                    !.pc = IF Len(mast.eos) + 1 = 2 + NIfns THEN "waitpid"
                                           ELSE "eos",
                                    !.smsg = signal_eos(mast.smsg).buf,
                                    !.wrote[eosnext(mast.eos, NIfns)] =
                                        @ \o signal_eos(mast.smsg).msgs]
            /\ masterq' = IF eosnext(mast.eos, NIfns) = Encl THEN Append(masterq, seos)
                          ELSE masterq
       ELSE MasterExits /\ masterq' = masterq
    /\ UNCHANGED <<ifnv, boot, kids, pc>>
    /\ UNCHANGED servevars

\* waitpid returns when a child has ended, and killpg ends the others
Waitpid ==
    /\ mast.pc = "waitpid"
    /\ \E k \in DOMAIN kids : Ended(k)
    /\ mast' = [mast EXCEPT !.pc = "killed", !.fds = {}]
    /\ UNCHANGED <<ifnv, boot, masterq, kids, pc>>
    /\ UNCHANGED servevars

\* the master when it is started with configuration c
Started(c, ndebug) ==
    [pc |-> IF Len(c) > 0 THEN "ifn" ELSE "encl", n |-> 0, fds |-> Std, cfg |-> c,
     eos |-> <<>>, sentto |-> {}, jail |-> {}, ndebug |-> ndebug,
     smsg |-> smsg0, wrote |-> [k \in Kids(c) |-> <<>>]]

\* the master and its children once every process was sent SEOS; the
\* children pass their assertions or are built with NDEBUG
Waiting(c) ==
    [pc |-> "waitpid", n |-> Len(c),
     fds |-> Std \cup {mastwithencl, mastwithprox}
             \cup {mastwithifn(n) : n \in 0..(Len(c) - 1)},
     cfg |-> c, eos |-> <<Encl, Prox>> \o [i \in 1..Len(c) |-> Ifn(i - 1)],
     sentto |-> Kids(c), jail |-> {"chroot", "pledge"}, ndebug |-> TRUE,
     smsg |-> smsg0,
     wrote |-> [k \in Kids(c) |->
                  (IF k = Encl THEN sendconfig_enclave_smsg(c, smsg0).msgs
                   ELSE IF k = Prox THEN sendconfig_proxy(c, smsg0).msgs
                   ELSE sendconfig_ifn(c, k[2], smsg0).msgs)
                  \o signal_eos(smsg0).msgs]]

Running(c) ==
    [k \in Kids(c) |->
       [st |-> "exec",
        fds |-> IF k = Encl
                THEN Std \cup {enclwithmast, enclwithprox}
                     \cup {enclwithifn(n) : n \in 0..(Len(c) - 1)}
                ELSE IF k = Prox
                     THEN Std \cup {proxwithmast, proxwithencl}
                          \cup {proxwithifn(n) : n \in 0..(Len(c) - 1)}
                ELSE (Std \cup {mastwithifn(m) : m \in 0..(k[2] - 1)}
                          \cup {enclwithifn(m) : m \in 0..(k[2] - 1)}
                          \cup {proxwithifn(m) : m \in 0..(k[2] - 1)}
                          \cup ifnends(k[2])) \ ifnchild_closes(k[2])]]

(* ------------------------------ actions ------------------------------- *)

NoMsg == [type |-> htole32(0), mac1 |-> Junk]

\* what identifies a handshake message: its mac1, which covers every field
\* before it
MsgId(m) == m.mac1

\* no message is being handled: the loop waits in kevent
Idle ==
    [src |-> "none", ifnid |-> NULL, peerid |-> NULL, mtcode |-> "", msg |-> NoMsg,
     fsn |-> NULL, lsn |-> NULL, seen |-> FALSE,
     ret |-> 0, err |-> "", peer |-> NULL, hsinit |-> NoHs]

\* The memory of the enclave before it handles a message, with n requests
\* to come for the peers in P.  recvconfig allocates struct hs with malloc
\* and does not initialise it: its words hold what the allocator left there.
Loaded(n, P, wr) ==
    /\ \E u \in SessIds :
          hs = [q \in Peers |-> [sessid |-> u, peersessid |-> u, epriv |-> 0,
                                 epubi |-> Junk, c |-> Junk, h |-> Junk]]
    /\ recvts = [q \in Peers |-> Zeros(TSLEN)]
    /\ sent = <<>>
    /\ net = {}
    /\ keylog = {}
    /\ accepted = {}
    /\ nkeys = [q \in Peers |-> 0]
    /\ left = n
    /\ who = P
    /\ io = wr
    /\ last = Idle
    /\ inq = [d \in Ports |-> <<>>]
    /\ rd = [d \in Ports |-> 0]
    /\ hup = {}
    /\ closed = {}
    /\ doterm = 0
    /\ ev = <<>>
    /\ scratch = NoScratch

\* the state when enclave_serv starts
Booted(n, P, wr) ==
    /\ Loaded(n, P, wr)
    /\ pc = "kevent"
    /\ ifnv = Stored(TheConfig)
    /\ boot = Serving
    /\ masterq = <<>>
    /\ mast = Waiting(TheConfig)
    /\ kids = Running(TheConfig)

\* any interface may ask for a handshake with any of its peers
Init == Booted(MaxInits, Peers, "ok")

\* one interface asks for one handshake after another with the same peer
RekeyPeer == <<0, 0>>
InitRekey == Booted(MaxInits + 1, {RekeyPeer}, "ok")

\* The private key the next X25519_keypair call for each peer generates: a
\* key no earlier call generated and no interface has as its static key.
PeerIndex(q) == Cardinality({x \in Peers : x[1] < q[1] \/ (x[1] = q[1] /\ x[2] < q[2])})
NextEpriv == [q \in Peers |-> ifnvsize + 1 + PeerIndex(q) + Cardinality(Peers) * nkeys[q]]

\* the message was accepted before: an init, or a response for which the
\* session keys went to an interface
Seen(m) == MsgId(m) \in accepted \cup {k.id : k \in keylog}

\* a response that was dropped by upgradehsresp, after findifnpeerbysessid
\* had found a peer for its receiver
Unauthenticated(R, d) == d.mtcode = "MSGWGRESP" /\ R.err \in {"dh", "empty"}

\* The state after a handler returned R for the message described by d.  A
\* message that was dropped is not kept in last; of a message dropped for its
\* interface id that id is, and of a response that was dropped by
\* upgradehsresp the interface and the peer it was matched to are.
Handled(R, d) ==
    /\ hs' = R.HS
    /\ recvts' = R.recvts
    /\ sent' = R.sent
    /\ net' = net \cup R.out
    /\ keylog' = keylog \cup R.keys
    /\ accepted' = IF R.ret = 0 /\ d.mtcode = "MSGWGINIT"
                   THEN accepted \cup {MsgId(d.msg)} ELSE accepted
    /\ nkeys' = [q \in Peers |-> IF R.HS[q].epriv # hs[q].epriv THEN nkeys[q] + 1
                                  ELSE nkeys[q]]
    /\ pc' = "handled"
    /\ last' = IF R.HS = hs /\ R.recvts = recvts /\ R.sent = <<>>
               THEN [Idle EXCEPT !.src = d.src, !.mtcode = d.mtcode,
                                 !.ifnid = IF R.err = "ifnid" \/ Unauthenticated(R, d)
                                           THEN d.ifnid ELSE NULL,
                                 !.peer = IF Unauthenticated(R, d) THEN R.peer ELSE NULL,
                                 !.seen = Seen(d.msg),
                                 !.ret = R.ret, !.err = R.err]
               ELSE [src |-> d.src, ifnid |-> d.ifnid, peerid |-> d.peerid,
                     mtcode |-> d.mtcode, msg |-> d.msg, fsn |-> d.fsn, lsn |-> d.lsn,
                     seen |-> Seen(d.msg),
                     ret |-> R.ret, err |-> R.err, peer |-> R.peer, hsinit |-> R.hsinit]

\* A handler that drops a message before it could accept it, R0 being what it
\* returns, reads neither the session id arc4random would return nor the
\* bytes after recvts and writes no frame: one value of each is enough.
Read(R0, sessid, tail, sendfail) ==
    (R0.ret = -1 /\ R0.err # "replay")
       => (sessid = 0 /\ tail = Zeros(TAGLEN) /\ sendfail = 0)

FromIfn(n, peerid, mtcode, msg) ==
    [src |-> "ifn", ifnid |-> n, peerid |-> peerid, mtcode |-> mtcode, msg |-> msg,
     fsn |-> NULL, lsn |-> NULL]

FromProxy(ifnid, mtcode, msg, fsn, lsn) ==
    [src |-> "proxy", ifnid |-> ifnid, peerid |-> NULL, mtcode |-> mtcode, msg |-> msg,
     fsn |-> fsn, lsn |-> lsn]

\* an interface asks for a new handshake with one of its peers
IfnReqWgInit(n, peerid) ==
    /\ pc = "kevent"
    /\ left > 0
    /\ <<n, peerid>> \in who
    /\ \E sessid \in SessIds, now \in Timestamps, sendfail \in SendFails :
          Handled(handleifnmsg(n, peerid, "MSGREQWGINIT", NoMsg, sessid, NextEpriv, now,
                               Zeros(TAGLEN), sendfail, hs, recvts),
                  FromIfn(n, peerid, "MSGREQWGINIT", NoMsg))
    /\ scratch' = handleifnmsg_scratch(scratch, n, peerid, "MSGREQWGINIT", NoMsg, NextEpriv,
                                       Zeros(TAGLEN), hs, recvts)
    /\ left' = left - 1
    /\ UNCHANGED <<who, io>>
    /\ UNCHANGED loopvars
    /\ UNCHANGED startvars

\* an interface forwards a handshake message it received on a peer's socket
IfnWgMsg(n, peerid, m, how) ==
    /\ pc = "kevent"
    /\ \E sessid \in SessIds, tail \in Tails, sendfail \in SendFails :
          /\ Read(handleifnmsg(n, peerid, MtcodeOf(m), Tamper(m, how, n), 0, NextEpriv,
                               Zeros(TSLEN), Zeros(TAGLEN), 0, hs, recvts),
                  sessid, tail, sendfail)
          /\ Handled(handleifnmsg(n, peerid, MtcodeOf(m), Tamper(m, how, n), sessid,
                                  NextEpriv, Zeros(TSLEN), tail, sendfail, hs, recvts),
                     FromIfn(n, peerid, MtcodeOf(m), Tamper(m, how, n)))
          /\ scratch' = handleifnmsg_scratch(scratch, n, peerid, MtcodeOf(m),
                                             Tamper(m, how, n), NextEpriv, tail, hs, recvts)
    /\ UNCHANGED <<left, who, io>>
    /\ UNCHANGED loopvars
    /\ UNCHANGED startvars

\* an interface sends a frame of a type the enclave does not handle, or a
\* frame for a peer id it has no peer for
IfnOther(n, peerid, mtcode) ==
    /\ pc = "kevent"
    /\ mtcode = "MSGCONNREQ" \/ peerid >= peerssize(n)
    /\ Handled(handleifnmsg(n, peerid, mtcode, NoMsg, 0, NextEpriv, Zeros(TSLEN),
                            Zeros(TAGLEN), 0, hs, recvts),
               FromIfn(n, peerid, mtcode, NoMsg))
    /\ scratch' = handleifnmsg_scratch(scratch, n, peerid, mtcode, NoMsg, NextEpriv,
                                       Zeros(TAGLEN), hs, recvts)
    /\ UNCHANGED <<left, who, io>>
    /\ UNCHANGED loopvars
    /\ UNCHANGED startvars

\* the proxy forwards a handshake message it received for interface ifnid
ProxyWgMsg(ifnid, m, how, fsn, lsn) ==
    /\ pc = "kevent"
    /\ \E sessid \in SessIds, tail \in Tails, sendfail \in SendFails :
          /\ Read(handleproxymsg(ifnid, lsn, fsn, MtcodeOf(m), Tamper(m, how, ifnid), 0,
                                 NextEpriv, Zeros(TAGLEN), 0, hs, recvts),
                  sessid, tail, sendfail)
          /\ Handled(handleproxymsg(ifnid, lsn, fsn, MtcodeOf(m), Tamper(m, how, ifnid),
                                    sessid, NextEpriv, tail, sendfail, hs, recvts),
                     FromProxy(ifnid, MtcodeOf(m), Tamper(m, how, ifnid), fsn, lsn))
          /\ scratch' = handleproxymsg_scratch(scratch, ifnid, MtcodeOf(m),
                                               Tamper(m, how, ifnid), NextEpriv, tail, hs,
                                               recvts)
    /\ UNCHANGED <<left, who, io>>
    /\ UNCHANGED loopvars
    /\ UNCHANGED startvars

\* the proxy sends a frame of a type the enclave does not handle, or a frame
\* for an interface id beyond ifnvsize
ProxyOther(ifnid, mtcode, fsn, lsn) ==
    /\ pc = "kevent"
    /\ ifnid # ifnvsize
    /\ mtcode \notin {"MSGWGINIT", "MSGWGRESP"} \/ ifnid > ifnvsize
    /\ Handled(handleproxymsg(ifnid, lsn, fsn, mtcode, NoMsg, 0, NextEpriv,
                              Zeros(TAGLEN), 0, hs, recvts),
               FromProxy(ifnid, mtcode, NoMsg, fsn, lsn))
    /\ scratch' = handleproxymsg_scratch(scratch, ifnid, mtcode, NoMsg, NextEpriv,
                                         Zeros(TAGLEN), hs, recvts)
    /\ UNCHANGED <<left, who, io>>
    /\ UNCHANGED loopvars
    /\ UNCHANGED startvars

\* The proxy tags a frame with ifnid = ifnvsize: the guard ifnid > ifnvsize
\* lets it pass and ifnv[ifnvsize] is read past the end of the table.  What
\* is found there is not the address of an interface: the process faults
\* when it follows it, or it reads some bytes as mac1key and name, under
\* which no mac1 verifies, and the handler returns -1.
ProxyIfnvsize(mtcode, fsn, lsn, fate) ==
    /\ pc = "kevent"
    /\ pc' = IF fate = "fault" THEN "fault" ELSE "handled"
    /\ sent' = <<>>
    /\ last' = [Idle EXCEPT !.src = "proxy", !.mtcode = mtcode, !.ifnid = ifnvsize,
                            !.ret = -1, !.err = "wild"]
    /\ UNCHANGED <<hs, recvts, net, keylog, accepted, nkeys, left, who, io, scratch>>
    /\ UNCHANGED loopvars
    /\ UNCHANGED startvars

\* the handler returned: the loop of enclave_serv waits for the next event
enclave_serv ==
    /\ pc = "handled"
    /\ pc' = "kevent"
    /\ sent' = <<>>
    /\ last' = Idle
    /\ scratch' = stale(scratch)
    /\ UNCHANGED <<hs, recvts, net, keylog, accepted, nkeys, left, who, io>>
    /\ UNCHANGED loopvars
    /\ UNCHANGED startvars

Mtcodes == {"MSGWGINIT", "MSGWGRESP", "MSGREQWGINIT", "MSGCONNREQ"}

Next ==
    \/ \E q \in Peers : IfnReqWgInit(q[1], q[2])
    \/ \E q \in Peers, m \in net : \E how \in TampersOf(m) : IfnWgMsg(q[1], q[2], m, how)
    \/ \E n \in IfnIds, mtcode \in Mtcodes :
          \E peerid \in 0..(peerssize(n) + 1) : IfnOther(n, peerid, mtcode)
    \/ \E ifnid \in IfnIds, m \in net, fsn \in ForeignAddrs, lsn \in LocalAddrs :
          \E how \in TampersOf(m) : ProxyWgMsg(ifnid, m, how, fsn, lsn)
    \/ \E ifnid \in 0..(ifnvsize + 1), mtcode \in Mtcodes, fsn \in ForeignAddrs,
          lsn \in LocalAddrs : ProxyOther(ifnid, mtcode, fsn, lsn)
    \/ \E mtcode \in Mtcodes, fsn \in ForeignAddrs, lsn \in LocalAddrs :
          \E fate \in {"fault", "drop"} : ProxyIfnvsize(mtcode, fsn, lsn, fate)
    \/ enclave_serv

Spec == Init /\ [][Next]_vars

SpecRekey == InitRekey /\ [][Next]_vars

\* one interface asks for one handshake, and writes to the interface
\* descriptors can fail
InitIo == Booted(MaxInits, {RekeyPeer}, "fail")

SpecIo == InitIo /\ [][Next]_vars

(* --------------------------- the event loop --------------------------- *)

\* The actions above let a frame arrive and be handled in one step.  The
\* actions below take the loop of enclave_serv apart: frames are written to
\* a descriptor and wait there, kevent reports a descriptor, the handler
\* reads one frame from it, the other end of a descriptor is closed, a
\* signal is delivered.  kevent is taken to report one descriptor at a time.

\* frames that arrive in a behaviour
MaxArrivals == 3
\* descriptors whose other end is closed in a behaviour
MaxEof == 1

\* arrival numbers count the frames written to the descriptors
Ats == {rd[d] : d \in Ports} \cup UNION {{inq[d][j].at : j \in 1..Len(inq[d])} : d \in Ports}
NextAt == 1 + CHOOSE a \in Ats : \A b \in Ats : b <= a

\* the interface a handshake message is made for: the one under whose public
\* key its mac1 is computed
Addressee(m) == CHOOSE n \in IfnIds : ifn(n).mac1key = m.mac1[2]

\* an interface process writes a frame to its descriptor
IfnSends(n, peerid, mtcode, msg) ==
    /\ pc \notin {"exit", "fault"}
    /\ IfnPort(n) \notin hup
    /\ NextAt <= MaxArrivals
    /\ mtcode = "MSGREQWGINIT" => left > 0
    /\ inq' = [inq EXCEPT ![IfnPort(n)] =
                 Append(@, [at |-> NextAt, tag |-> peerid, mtcode |-> mtcode, msg |-> msg,
                            fsn |-> NULL, lsn |-> NULL])]
    /\ left' = IF mtcode = "MSGREQWGINIT" THEN left - 1 ELSE left
    /\ UNCHANGED <<hs, recvts, sent, net, last, keylog, accepted, nkeys, who, io, pc,
                   rd, hup, closed, doterm, ev, scratch>>
    /\ UNCHANGED startvars

\* the proxy writes a frame to its descriptor
ProxySends(ifnid, mtcode, msg, fsn, lsn) ==
    /\ pc \notin {"exit", "fault"}
    /\ pport \notin hup
    /\ NextAt <= MaxArrivals
    /\ inq' = [inq EXCEPT ![pport] =
                 Append(@, [at |-> NextAt, tag |-> ifnid, mtcode |-> mtcode, msg |-> msg,
                            fsn |-> fsn, lsn |-> lsn])]
    /\ UNCHANGED <<hs, recvts, sent, net, last, keylog, accepted, nkeys, left, who, io, pc,
                   rd, hup, closed, doterm, ev, scratch>>
    /\ UNCHANGED startvars

\* wire_recvpeeridmsg and wire_recvproxymsg read the oldest frame that waits
\* on the descriptor
wire_recv_newest(q) == [frame |-> q[Len(q)], rest |-> SubSeq(q, 1, Len(q) - 1)]
wire_recv(q) == [frame |-> Head(q), rest |-> Tail(q)]

\* a write to the descriptor of interface n fails when the descriptor was
\* closed or its other end is gone
LoopFail(n) == IF IfnPort(n) \in closed \cup hup THEN 1 ELSE 0

\* the timestamps the clock can show when frame f is handled
Nows(f) == IF f.mtcode = "MSGREQWGINIT" THEN Timestamps ELSE {Zeros(TSLEN)}

\* handleifnmsg reads frame f from the descriptor of interface n
IfnRead(n, f) ==
    /\ \E sessid \in SessIds, now \in Nows(f), tail \in Tails :
          /\ Read(handleifnmsg(n, f.tag, f.mtcode, f.msg, 0, NextEpriv, now, Zeros(TAGLEN),
                               LoopFail(n), hs, recvts),
                  sessid, tail, 0)
          /\ Handled(handleifnmsg(n, f.tag, f.mtcode, f.msg, sessid, NextEpriv, now, tail,
                                  LoopFail(n), hs, recvts),
                     FromIfn(n, f.tag, f.mtcode, f.msg))
          /\ scratch' = handleifnmsg_scratch(scratch, n, f.tag, f.mtcode, f.msg, NextEpriv,
                                             tail, hs, recvts)
    /\ rd' = [rd EXCEPT ![IfnPort(n)] = f.at]

\* kevent reports the descriptor of interface n as readable
IfnReadable(n) ==
    /\ pc = "kevent"
    /\ IfnPort(n) \notin closed \cup hup
    /\ inq[IfnPort(n)] # <<>>
    /\ IfnRead(n, wire_recv(inq[IfnPort(n)]).frame)
    /\ inq' = [inq EXCEPT ![IfnPort(n)] = wire_recv(@).rest]
    /\ UNCHANGED <<left, who, io, hup, closed, doterm, ev>>
    /\ UNCHANGED startvars

\* handleproxymsg reads frame f from the descriptor of the proxy
ProxyRead(f) ==
    /\ \E sessid \in SessIds, tail \in Tails :
          /\ Read(handleproxymsg(f.tag, f.lsn, f.fsn, f.mtcode, f.msg, 0, NextEpriv,
                                 Zeros(TAGLEN), LoopFail(f.tag), hs, recvts),
                  sessid, tail, 0)
          /\ Handled(handleproxymsg(f.tag, f.lsn, f.fsn, f.mtcode, f.msg, sessid, NextEpriv,
                                    tail, LoopFail(f.tag), hs, recvts),
                     FromProxy(f.tag, f.mtcode, f.msg, f.fsn, f.lsn))
          /\ scratch' = handleproxymsg_scratch(scratch, f.tag, f.mtcode, f.msg, NextEpriv,
                                               tail, hs, recvts)
    /\ rd' = [rd EXCEPT ![pport] = f.at]

\* kevent reports the descriptor of the proxy as readable
ProxyReadable ==
    /\ pc = "kevent"
    /\ pport \notin closed \cup hup
    /\ inq[pport] # <<>>
    /\ ProxyRead(wire_recv(inq[pport]).frame)
    /\ inq' = [inq EXCEPT ![pport] = wire_recv(@).rest]
    /\ UNCHANGED <<left, who, io, hup, closed, doterm, ev>>
    /\ UNCHANGED startvars

\* the process at the other end of descriptor d closes it or exits
Hangup(d) ==
    /\ pc \notin {"exit", "fault"}
    /\ d \notin hup
    /\ Cardinality(hup) < MaxEof
    /\ hup' = hup \cup {d}
    /\ UNCHANGED <<hs, recvts, sent, net, last, keylog, accepted, nkeys, left, who, io, pc,
                   inq, rd, closed, doterm, ev, scratch>>
    /\ UNCHANGED startvars

\* close(2) of descriptor d
closefd_all(fds, d) == Ports
closefd(fds, d) == fds \cup {d}

\* kevent reports descriptor d with EV_EOF: the descriptor is closed, with
\* what was not yet read from it, and the loop goes on
Eof(d) ==
    /\ pc = "kevent"
    /\ d \in hup \ closed
    /\ closed' = closefd(closed, d)
    /\ inq' = [inq EXCEPT ![d] = <<>>]
    /\ pc' = "handled"
    /\ sent' = <<>>
    /\ last' = Idle
    /\ UNCHANGED <<hs, recvts, net, keylog, accepted, nkeys, left, who, io, rd, hup, doterm, ev,
                   scratch>>
    /\ UNCHANGED startvars

\* SIGINT or SIGTERM is delivered: handlesig sets doterm, and a kevent call
\* that is waiting returns with EINTR
handlesig ==
    /\ pc \in {"kevent", "handled", "checked"}
    /\ doterm' = 1
    /\ pc' = IF pc = "kevent" THEN "handled" ELSE pc
    /\ sent' = IF pc = "kevent" THEN <<>> ELSE sent
    /\ last' = IF pc = "kevent" THEN Idle ELSE last
    /\ UNCHANGED <<hs, recvts, net, keylog, accepted, nkeys, left, who, io, inq, rd, hup,
                   closed, ev, scratch>>
    /\ UNCHANGED startvars

\* the top of the loop: exit if doterm is set
looptop ==
    /\ pc = "handled"
    /\ pc' = IF doterm # 0 THEN "exit" ELSE "checked"
    /\ sent' = <<>>
    /\ last' = Idle
    /\ scratch' = stale(scratch)
    /\ UNCHANGED <<hs, recvts, net, keylog, accepted, nkeys, left, who, io>>
    /\ UNCHANGED loopvars
    /\ UNCHANGED startvars

\* the loop calls kevent and waits for an event
kevent ==
    /\ pc = "checked"
    /\ pc' = "kevent"
    /\ UNCHANGED <<hs, recvts, sent, net, last, keylog, accepted, nkeys, left, who, io,
                   scratch>>
    /\ UNCHANGED loopvars
    /\ UNCHANGED startvars

NextLoop ==
    \/ \E q \in who : IfnSends(q[1], q[2], "MSGREQWGINIT", NoMsg)
    \/ \E m \in net : \E peerid \in 0..(peerssize(Addressee(m)) - 1) :
          IfnSends(Addressee(m), peerid, MtcodeOf(m), m)
    \/ \E m \in net, fsn \in ForeignAddrs, lsn \in LocalAddrs :
          ProxySends(Addressee(m), MtcodeOf(m), m, fsn, lsn)
    \/ \E n \in IfnIds : IfnReadable(n)
    \/ ProxyReadable
    \/ \E d \in Ports : Hangup(d)
    \/ \E d \in Ports : Eof(d)
    \/ handlesig
    \/ looptop
    \/ kevent

\* one interface asks for one handshake
InitLoop == Booted(MaxInits, {RekeyPeer}, "ok")

SpecLoop == InitLoop /\ [][NextLoop]_vars

(* ---------------------- the events of one kevent ---------------------- *)

\* kevent fills ev with up to evsize = ifnvsize + 1 events, one for every
\* descriptor that has something to report, in an order the kernel chooses,
\* and the loop looks at them one after the other.  The actions below take
\* the for loop over ev apart.

\* the open descriptors that have something to report
Ready == {d \in Ports \ closed : d \in hup \/ inq[d] # <<>>}

\* the orders in which the descriptors in S can be reported
Orders(S) ==
    {o \in [1..Cardinality(S) -> S] : \A i, j \in 1..Cardinality(S) : i # j => o[i] # o[j]}

\* kevent returns: an event for every ready descriptor, EV_EOF set for those
\* whose other end was closed
kevent_returns ==
    /\ pc = "kevent"
    /\ Ready # {}
    /\ \E o \in Orders(Ready) :
          ev' = [i \in 1..Len(o) |-> [ident |-> o[i], eof |-> o[i] \in hup]]
    /\ pc' = "events"
    /\ UNCHANGED <<hs, recvts, sent, net, last, keylog, accepted, nkeys, left, who, io,
                   inq, rd, hup, closed, doterm, scratch>>
    /\ UNCHANGED startvars

\* an event with EV_EOF: the descriptor is closed, with what was not yet read
ev_eof(d) ==
    /\ closed' = closefd(closed, d)
    /\ inq' = [inq EXCEPT ![d] = <<>>]
    /\ pc' = "handled"
    /\ sent' = <<>>
    /\ last' = Idle
    /\ UNCHANGED <<hs, recvts, net, keylog, accepted, nkeys, rd, scratch>>

\* the events left to look at after the one for the proxy descriptor: the
\* break leaves the for loop over ev
afterproxy_goon(e) == Tail(e)
afterproxy(e) == <<>>

\* the loop looks at an event for the proxy descriptor
ev_proxy ==
    /\ pc \in {"events", "handled"}
    /\ ev # <<>>
    /\ Head(ev).ident = pport
    /\ IF Head(ev).eof THEN ev_eof(pport)
       ELSE /\ ProxyRead(wire_recv(inq[pport]).frame)
            /\ inq' = [inq EXCEPT ![pport] = wire_recv(@).rest]
            /\ closed' = closed
    /\ ev' = afterproxy(ev)
    /\ UNCHANGED <<left, who, io, hup, doterm>>
    /\ UNCHANGED startvars

\* the loop looks at an event for the descriptor of interface n: the break
\* leaves the search for the interface, and the for loop over ev goes on
ev_ifn(n) ==
    /\ pc \in {"events", "handled"}
    /\ ev # <<>>
    /\ Head(ev).ident = IfnPort(n)
    /\ IF Head(ev).eof THEN ev_eof(IfnPort(n))
       ELSE /\ IfnRead(n, wire_recv(inq[IfnPort(n)]).frame)
            /\ inq' = [inq EXCEPT ![IfnPort(n)] = wire_recv(@).rest]
            /\ closed' = closed
    /\ ev' = Tail(ev)
    /\ UNCHANGED <<left, who, io, hup, doterm>>
    /\ UNCHANGED startvars

\* The proxy writes a frame for interface ifnid whenever none waits on its
\* descriptor, for as long as it likes.  These frames are of a type the
\* enclave drops, and they are not counted: each carries the number of the
\* last frame that was.
ProxyKnocks(ifnid, fsn, lsn) ==
    /\ pc \notin {"exit", "fault"}
    /\ pport \notin hup
    /\ inq[pport] = <<>>
    /\ inq' = [inq EXCEPT ![pport] =
                 <<[at |-> NextAt - 1, tag |-> ifnid, mtcode |-> "MSGCONNREQ", msg |-> NoMsg,
                    fsn |-> fsn, lsn |-> lsn]>>]
    /\ UNCHANGED <<hs, recvts, sent, net, last, keylog, accepted, nkeys, left, who, io, pc,
                   rd, hup, closed, doterm, ev, scratch>>
    /\ UNCHANGED startvars

\* what the enclave itself does in the loop
LoopStep ==
    \/ kevent_returns
    \/ ev_proxy
    \/ \E n \in IfnIds : ev_ifn(n)
    \/ ev = <<>> /\ looptop
    \/ kevent

NextBatch ==
    \/ \E q \in who : IfnSends(q[1], q[2], "MSGREQWGINIT", NoMsg)
    \/ \E m \in net, fsn \in ForeignAddrs, lsn \in LocalAddrs :
          ProxySends(Addressee(m), MtcodeOf(m), m, fsn, lsn)
    \/ \E ifnid \in IfnIds, fsn \in ForeignAddrs, lsn \in LocalAddrs :
          ProxyKnocks(ifnid, fsn, lsn)
    \/ \E d \in Ports : Hangup(d)
    \/ LoopStep

\* The enclave is a process that runs: when it can take a step of the loop
\* it takes one.  kevent returns when a descriptor is ready, and every
\* handler returns.  Nothing is assumed about the order of the events in ev,
\* nor about what the interfaces and the proxy write.  LoopMoves is what
\* LoopStep does to pc and ev, which every step of the loop changes and no
\* other step does.
LoopMoves ==
    \/ /\ pc = "kevent" /\ Ready # {}
       /\ pc' = "events"
       /\ \E o \in Orders(Ready) :
             ev' = [i \in 1..Len(o) |-> [ident |-> o[i], eof |-> o[i] \in hup]]
    \/ /\ pc \in {"events", "handled"} /\ ev # <<>>
       /\ pc' = "handled"
       /\ ev' = IF Head(ev).ident = pport THEN afterproxy(ev) ELSE Tail(ev)
    \/ /\ pc = "handled" /\ ev = <<>>
       /\ pc' = IF doterm # 0 THEN "exit" ELSE "checked"
       /\ ev' = ev
    \/ /\ pc = "checked"
       /\ pc' = "kevent"
       /\ ev' = ev

SpecBatch == InitLoop /\ [][NextBatch]_vars /\ WF_<<pc, ev>>(LoopMoves)

(* --------------------- the startup specifications --------------------- *)

\* The master starts with any of the configurations, forks its children,
\* sends them their configuration and signals the end of startup, while the
\* children run; the enclave goes through enclave_init.
InitMaster ==
    /\ Loaded(MaxInits, {RekeyPeer}, "ok")
    /\ pc = "init"
    /\ ifnv = <<>>
    /\ boot = NotStarted
    /\ masterq = <<>>
    /\ \E c \in Configs \cup {TheConfig}, ndebug \in BOOLEAN :
          /\ mast = Started(c, ndebug)
          /\ kids = [k \in Kids(c) |-> [st |-> "none", fds |-> {}]]

NextMaster ==
    \/ \E ok \in BOOLEAN : ForkIfn(ok)
    \/ \E n \in 0..(NIfns - 1) : IfnChild(n)
    \/ \E ok \in BOOLEAN : ForkEncl(ok)
    \/ EnclChild
    \/ \E ok \in BOOLEAN : ForkProx(ok)
    \/ ProxChild
    \/ \E k \in 0..Len(sendconfig_enclave(mast.cfg)) : SendConfigEnclave(k)
    \/ \E ok \in BOOLEAN : SendConfigProxy(ok)
    \/ \E ok \in BOOLEAN : SendConfigIfn(ok)
    \/ \E ok \in BOOLEAN : ReExec(ok)
    \/ \E step \in {"chroot", "pledge", "read"}, ok \in BOOLEAN : MasterM(step, ok)
    \/ \E ok \in BOOLEAN : SignalEos(ok)
    \/ Waitpid
    \/ \E nomem \in BOOLEAN : RecvConfig(nomem)
    \/ RecvFails
    \/ \E ok \in BOOLEAN : enclave_init(ok)

SpecMaster == InitMaster /\ [][NextMaster]_vars

\* The enclave is executed and reads what it finds on its master
\* descriptor: the configuration and SEOS as the master writes them, or that
\* sequence cut short, with a message of another type in one place, or with
\* another id in one message.
Good == sendconfig_enclave(TheConfig) \o <<seos>>

StartTypes == {"SINIT", "SIFN", "SPEER", "SEOS"}

Retyped == {[Good EXCEPT ![k].type = t] : k \in 1..Len(Good), t \in StartTypes}

Renumbered ==
    {[Good EXCEPT ![k] = IF @.type = "SIFN" THEN [@ EXCEPT !.ifnid = @ + 1]
                         ELSE IF @.type = "SPEER" THEN [@ EXCEPT !.peerid = @ + 1]
                         ELSE @] : k \in 1..Len(Good)}

Cut == {SubSeq(Good, 1, k) : k \in 0..Len(Good)}

\* the descriptors the enclave is executed with: those the master leaves
\* it, one more, or one less
EnclFds ==
    LET fds == Running(TheConfig)[Encl].fds
    IN  {fds, fds \cup {mastwithencl}, fds \ {enclwithifn(0)}}

InitStart ==
    /\ Loaded(MaxInits, {RekeyPeer}, "ok")
    /\ pc = "init"
    /\ ifnv = <<>>
    /\ boot = [NotStarted EXCEPT !.at = "SINIT", !.masterport = enclwithmast]
    /\ \/ /\ masterq = Good
          /\ mast = Waiting(TheConfig)
          /\ \E fds \in EnclFds : kids = [Running(TheConfig) EXCEPT ![Encl].fds = fds]
       \/ /\ masterq \in (Retyped \cup Renumbered) \ {Good}
          /\ mast = [Waiting(TheConfig) EXCEPT !.ndebug = FALSE]
          /\ kids = Running(TheConfig)
       \/ /\ masterq \in Cut \ {Good}
          /\ mast = [Waiting(TheConfig) EXCEPT !.pc = "killed", !.fds = {}]
          /\ kids = Running(TheConfig)

NextStart ==
    \/ \E nomem \in BOOLEAN : RecvConfig(nomem)
    \/ RecvFails
    \/ \E ok \in BOOLEAN : enclave_init(ok)
    \/ Next

SpecStart == InitStart /\ [][NextStart]_vars

(* ------------------------------ claims -------------------------------- *)

\* the handler of the last dispatched message was upgradehsinit's caller and
\* upgradehsinit accepted the init
InitAccepted == pc = "handled" /\ last.mtcode = "MSGWGINIT" /\ last.hsinit # NoHs

\* C1: recvts of a peer never decreases, and a step in which an init is
\* accepted for a peer leaves that peer's recvts strictly greater, in
\* lexicographic byte order, than it was: an equal timestamp is not accepted.
C1_RecvtsIncreases ==
    [][\A q \in Peers :
         /\ memcmp(recvts'[q], recvts[q], TSLEN) >= 0
         /\ (InitAccepted' /\ q = <<last'.ifnid, last'.peer>>)
                => memcmp(recvts'[q], recvts[q], TSLEN) > 0]_vars

\* a second init was accepted for a peer, on top of the timestamp of the first
C1_Witness ==
    /\ InitAccepted
    /\ Cardinality(accepted) = 2
    /\ recvts[<<last.ifnid, last.peer>>] = TsBytes(MaxTs)

\* C2: an init that was accepted before, delivered again by the proxy or by
\* an interface, is rejected: nothing is sent, and recvts, the handshake
\* states, the messages in flight and the session keys handed out are as
\* they were.
C2_ReplayRejected ==
    [][(pc' = "handled" /\ last'.mtcode = "MSGWGINIT" /\ last'.seen)
         => /\ last'.ret = -1
            /\ sent' = <<>>
            /\ hs' = hs
            /\ recvts' = recvts
            /\ net' = net
            /\ keylog' = keylog]_vars

\* the proxy delivers again the first of two accepted inits
C2_Witness ==
    /\ pc = "handled"
    /\ last.mtcode = "MSGWGINIT"
    /\ last.seen
    /\ last.src = "proxy"
    /\ last.err = "replay"
    /\ Cardinality(accepted) = 2

\* why a handshake message is dropped
HsErrors == {"mac1", "dh", "stat", "timestamp", "empty", "nopeer", "nosess", "wrongpeer", "replay"}

\* C3: when an init or a response is dropped because of its mac1, a failed
\* DH, a box that does not open, an unknown peer or session id, a peer other
\* than the asserted one or a replayed timestamp, c, h and recvts of every
\* peer are as they were before the message.
C3_FailureKeepsState ==
    [][(pc' = "handled" /\ last'.mtcode \in {"MSGWGINIT", "MSGWGRESP"} /\ last'.ret = -1
          /\ last'.err \in HsErrors)
         => \A q \in Peers : /\ hs'[q].c = hs[q].c
                              /\ hs'[q].h = hs[q].h
                              /\ recvts'[q] = recvts[q]]_vars

\* an init whose timestamp box does not open is dropped after a handshake
\* was completed
C3_Witness ==
    /\ pc = "handled"
    /\ last.mtcode = "MSGWGINIT"
    /\ last.err = "timestamp"
    /\ \E q \in Peers : hs[q].c # Junk /\ recvts[q] # Zeros(TSLEN)

\* C4: when a handshake is complete, the keys the enclave handed out for its
\* two sides mirror each other: the initiator's sending key is the
\* responder's receiving key and the other way round, and they are the first
\* and the second output of KDF_2(empty, c) for the one final c of both.
C4_KeysMirror ==
    \A a, b \in keylog :
       (a.responder /\ ~b.responder /\ a.ephemeral = b.ephemeral)
          => LET kd == kdfn(2, Empty, a.c).out
             IN  /\ a.c = b.c
                 /\ b.msk.sendkey = a.msk.recvkey
                 /\ b.msk.recvkey = a.msk.sendkey
                 /\ b.msk.sendkey = kd[1]
                 /\ b.msk.recvkey = kd[2]

\* session keys were handed out for both sides of one handshake
C4_Witness ==
    \E a, b \in keylog : a.responder /\ ~b.responder /\ a.ephemeral = b.ephemeral

\* C5: when an init made by createhsinit is accepted, the c and h that
\* upgradehsinit stores for the responder are the c and h createhsinit
\* stored for the initiator.
C5_InitAgrees ==
    InitAccepted
       => \A qi \in Peers :
             Pub(hs[qi].epriv) = last.msg.ephemeral
                => hs[qi].c = last.hsinit.c /\ hs[qi].h = last.hsinit.h

\* an init is accepted while its initiator still holds the state it made it
\* from
C5_Witness ==
    /\ InitAccepted
    /\ \E qi \in Peers : Pub(hs[qi].epriv) = last.msg.ephemeral /\ hs[qi].c # Junk

\* the handler of the last dispatched message accepted a response
RespAccepted == pc = "handled" /\ last.mtcode = "MSGWGRESP" /\ last.ret = 0

\* C6: when a response made by createhsresp is accepted, the c and h stored
\* for the initiator are the c and h stored for the responder.
C6_RespAgrees ==
    RespAccepted
       => \A qr \in Peers :
             Pub(hs[qr].epriv) = last.msg.ephemeral
                => /\ hs[qr].c = hs[<<last.ifnid, last.peer>>].c
                   /\ hs[qr].h = hs[<<last.ifnid, last.peer>>].h

\* a response is accepted while its responder still holds the state it made
\* it from
C6_Witness ==
    /\ RespAccepted
    /\ \E qr \in Peers : Pub(hs[qr].epriv) = last.msg.ephemeral /\ hs[qr].c # Junk

\* the types of the frames sent for the last dispatched message, in order
SentTypes == [j \in 1..Len(sent) |-> sent[j].mtcode]

\* every frame sent goes to the interface the message was for, tagged with
\* the peer it was resolved to
SentToPeer ==
    \A j \in 1..Len(sent) :
       sent[j].port = IfnPort(last.ifnid) /\ sent[j].peerid = last.peer

\* C7: for an init from the proxy that is accepted the enclave sends to the
\* peer's interface MSGCONNREQ with the local and the foreign address of the
\* proxy's message, then MSGSESSKEYS, then MSGWGRESP, and nothing else.
C7_ProxyInitReplies ==
    (InitAccepted /\ last.src = "proxy")
       => /\ SentTypes = <<"MSGCONNREQ", "MSGSESSKEYS", "MSGWGRESP">>
          /\ SentToPeer
          /\ sent[1].body.lsn = last.lsn
          /\ sent[1].body.fsn = last.fsn

\* the proxy's init was accepted
C7_Witness ==
    InitAccepted /\ last.src = "proxy" /\ last.lsn \in LocalAddrs /\ Len(sent) = 3

C9_RespReplies ==
    RespAccepted
       => /\ hs[<<last.ifnid, last.peer>>].peersessid = last.msg.sender
          /\ SentToPeer
          /\ SentTypes = IF last.src = "proxy" THEN <<"MSGCONNREQ", "MSGSESSKEYS">>
                         ELSE <<"MSGSESSKEYS">>

\* the proxy's response was accepted
C9_Witness ==
    RespAccepted /\ last.src = "proxy" /\ Len(sent) = 2

\* C10: for MSGREQWGINIT with the id of a peer the enclave sends one frame,
\* a MSGWGINIT for that peer with type 1, with the local session id now
\* stored for the peer as sender and with a mac2 of zeros.
C10_ReqWgInitReply ==
    (pc = "handled" /\ last.mtcode = "MSGREQWGINIT" /\ last.peer # NULL)
       => /\ SentTypes = <<"MSGWGINIT">>
          /\ SentToPeer
          /\ last.peer = last.peerid
          /\ le32toh(sent[1].body.type) = 1
          /\ sent[1].body.sender = hs[<<last.ifnid, last.peer>>].sessid
          /\ sent[1].body.mac2 = Zeros(16)

\* a request was served and the session id chosen is not the one the peer
\* had at startup
C10_Witness ==
    /\ pc = "handled"
    /\ last.mtcode = "MSGREQWGINIT"
    /\ last.peer # NULL
    /\ \E q \in Peers : hs[q].sessid # hs[<<last.ifnid, last.peer>>].sessid

\* the step handled a message and left a trace: it changed a handshake state
\* or a timestamp or sent a frame
Effect ==
    /\ pc' = "handled"
    /\ hs' # hs \/ recvts' # recvts \/ sent' # <<>> \/ net' # net \/ keylog' # keylog

\* the static public key an init carries in its first box
StaticOf(m) == IF m.stat[1] = "aead" THEN m.stat[3] ELSE Junk

\* the peer of interface n a handshake message resolves to, or NULL: for an
\* init the peer with the static key it carries, for a response the peer
\* whose local session id is its receiver
Resolves(n, m, HS) ==
    IF IsInit(m) THEN findifnpeerbypubkey(n, StaticOf(m))
    ELSE findifnpeerbysessid(n, m.receiver, HS)

\* C11: an init or a response that an interface hands over for peer P1 of
\* its peers and that resolves to another peer P2 leaves no trace: nothing is
\* sent and no handshake state, session id or timestamp of any peer changes.
\* Stated the other way round: a handshake message from an interface that
\* leaves a trace resolves to the peer the interface asserted.
C11_WrongPeerRejected ==
    [][(Effect /\ last'.src = "ifn" /\ last'.mtcode \in {"MSGWGINIT", "MSGWGRESP"})
         => Resolves(last'.ifnid, last'.msg, hs) = last'.peerid]_vars

\* an interface handed over, for one of its peers, a response to the
\* handshake it runs with another of its peers
C11_Witness ==
    /\ pc = "handled"
    /\ last.src = "ifn"
    /\ last.mtcode = "MSGWGRESP"
    /\ last.err = "wrongpeer"
    /\ \E q \in Peers : hs[q].c # Junk

PeerKeys(n) == {Pub(PeerPrivs[n + 1][m + 1]) : m \in 0..(peerssize(n) - 1)}

\* the static public keys of all interfaces
AllKeys == {Pub(StaticPriv[n + 1]) : n \in IfnIds}

\* C13: the lookup of a peer by public key finds a peer exactly for the keys
\* of the peers of the interface it is given, and an init for interface A
\* that leaves a trace carries the static key of the peer of A it is handled
\* for and changes no peer of another interface: an init with the static key
\* of a peer that only another interface has is dropped without a trace.
C13_LookupPerInterface ==
    [][/\ \A n \in IfnIds, k \in AllKeys :
             (findifnpeerbypubkey(n, k) # NULL) <=> (k \in PeerKeys(n))
       /\ (Effect /\ last'.mtcode = "MSGWGINIT")
             => /\ StaticOf(last'.msg) \in PeerKeys(last'.ifnid)
                /\ StaticOf(last'.msg) = peerof(last'.ifnid, last'.peer).pubkey
                /\ \A q \in Peers :
                      q[1] # last'.ifnid => hs'[q] = hs[q] /\ recvts'[q] = recvts[q]]_vars

\* an init whose static key opens but is the key of no peer of the
\* interface, while another interface has a peer with that key, was dropped
C13_Witness ==
    /\ pc = "handled"
    /\ last.mtcode = "MSGWGINIT"
    /\ last.err = "nopeer"
    /\ \E n \in IfnIds, k \in AllKeys : k \notin PeerKeys(n) /\ \E n2 \in IfnIds : k \in PeerKeys(n2)

\* mac1 of message m as computed under the mac1key of interface n
Mac1For(n, m) ==
    ws_mac(IF IsInit(m) THEN Mac1DataInit(m) ELSE Mac1DataResp(m), ifn(n).mac1key)

C15_UnknownIfnidDropped ==
    [][(last'.src = "proxy" /\ last'.ifnid # NULL /\ last'.ifnid >= ifnvsize)
         => /\ pc' = "handled"
            /\ last'.ret = -1
            /\ last'.err = "ifnid"
            /\ sent' = <<>>
            /\ hs' = hs /\ recvts' = recvts /\ net' = net /\ keylog' = keylog]_vars

\* a frame with the number of interfaces as interface id got past the check
\* of the id, and the process read the table behind its last entry
C15_Witness ==
    last.src = "proxy" /\ last.ifnid = ifnvsize /\ last.err = "wild" /\ pc = "fault"

C17_OneAtATime ==
    [][/\ rd' # rd => pc = "kevent" /\ pc' = "handled"
       /\ (sent' # sent /\ sent' # <<>>) => rd' # rd
       /\ net' # net => rd' # rd
       /\ \A d \in Ports : \A j \in 1..Len(inq'[d]) : inq'[d][j].at > rd'[d]
       /\ \A d \in Ports : rd'[d] >= rd[d]]_vars

\* the replies to a frame were sent while a frame that arrived after it on
\* the same descriptor waits
C17_Witness ==
    /\ pc = "handled"
    /\ sent # <<>>
    /\ last.ret = 0
    /\ LET d == IF last.src = "proxy" THEN pport ELSE IfnPort(last.ifnid)
       IN  rd[d] > 0 /\ inq[d] # <<>>

\* kevent has something to report: a frame waits on an open descriptor, or
\* the other end of an open descriptor was closed
Pending == \E d \in Ports \ closed : d \in hup \/ inq[d] # <<>>

\* C18: once a termination signal was delivered the process exits without
\* any further frame or event: it never waits in kevent with doterm set and
\* nothing to report.
C18_TermObserved ==
    (doterm # 0 /\ pc = "kevent") => Pending

\* the signal was delivered after the loop had tested doterm and before it
\* waited in kevent: the loop waits with doterm set and nothing wakes it up
C18_Witness ==
    doterm # 0 /\ pc = "kevent" /\ ~Pending /\ hup = {} /\ net # {}

\* C19: when the write of a reply to an interface descriptor fails, the
\* process exits.
C19_SendFailureExits ==
    [][(last'.err = "send" /\ last' # last) => pc' = "exit"]_vars

\* the keys for an accepted init could not be written, and the enclave went
\* on to handle the next message: the same init again, now a replay
C19_Witness ==
    /\ pc = "handled"
    /\ last.err = "replay"
    /\ keylog = {}
    /\ \E q \in Peers : recvts[q] # Zeros(TSLEN)

\* the timestamp an init made by createhsinit carries in its second box
TsOf(m) == m.timestamp[3][2]

\* the inits in flight, as createhsinit made them
Inits == {m \in net : IsInit(m)}

\* C20: whenever an init is handled, each init made by createhsinit, were
\* it delivered now to the interface it is for, by the proxy or by that
\* interface for the right peer, is accepted
\* exactly if its timestamp is greater than the one stored for the peer, so
\* the first of two is accepted and the second one exactly if it is newer;
\* otherwise it is rejected as a replay.  When it is accepted the peer's
\* timestamp, initiator ephemeral, remote and local session id, h and c are
\* those of this handshake, and the keys sent are derived from that c.
C20_SecondInit ==
    [][/\ (pc' = "handled" /\ last'.mtcode = "MSGWGINIT" /\ last'.src = "proxy")
             => \A m \in Inits :
                   LET n == Addressee(m)
                       p == Resolves(n, m, hs)
                   IN  \A peer \in {NULL, p}, tail \in Tails :
                          LET u == upgradehsinit(n, m, peer, TRUE, hs, recvts, tail)
                          IN  /\ (u.ret = 0) <=> (memcmp(TsOf(m), recvts[<<n, p>>], TSLEN) > 0)
                              /\ u.ret = -1 => u.err = "replay"
       /\ (InitAccepted' /\ last'.ret = 0 /\ last'.msg \in Inits)
             => LET q == <<last'.ifnid, last'.peer>>
                IN  /\ memcmp(TsOf(last'.msg), recvts[q], TSLEN) > 0
                    /\ recvts'[q] = TsOf(last'.msg)
                    /\ hs'[q].epubi = last'.msg.ephemeral
                    /\ hs'[q].peersessid = last'.msg.sender
                    /\ hs'[q].sessid = sent'[Len(sent')].body.sender
                    /\ hs'[q].h = last'.hsinit.h
                    /\ hs'[q].c \notin {hs[q].c, last'.hsinit.c, Junk}
                    /\ \E j \in 1..Len(sent') :
                          /\ sent'[j].mtcode = "MSGSESSKEYS"
                          /\ sent'[j].body = makemsgsesskeys(hs'[q], TRUE)]_vars

\* the second of two inits of one peer was accepted, from an interface, with
\* another ephemeral and another session id than the first
C20_Witness ==
    /\ InitAccepted
    /\ last.src = "ifn"
    /\ Cardinality(accepted) = 2
    /\ Cardinality(Inits) = 2
    /\ \E m \in Inits : m.sender # last.msg.sender /\ m.ephemeral # last.msg.ephemeral


\* C21: once recvconfig has returned, no step changes what it stored: the
\* keys of the interfaces and of the peers stay as they are; dhsecret of every
\* stored peer is X25519 of the private key of its interface and its public
\* key, and while the enclave serves the stored keys are those the handlers
\* use
C21_KeysFrozen ==
    /\ [](\A i \in 1..Len(ifnv) : \A j \in 1..Len(ifnv[i].peers) :
            ifnv[i].peers[j].dhsecret
              = dh(ifnv[i].ifn.privkey, ifnv[i].peers[j].pubkey).k)
    /\ [](boot.at = "serve"
            => \A n \in IfnIds :
                  /\ ifnv[n + 1].ifn = ifn(n)
                  /\ \A m \in 0..(peerssize(n) - 1) : ifnv[n + 1].peers[m + 1] = peerof(n, m))
    /\ [][boot.at \notin RecvStages => ifnv' = ifnv]_vars

\* a handshake message was handled with success after the startup
C21_Witness ==
    /\ boot.at = "serve"
    /\ pc = "handled"
    /\ last.ret = 0
    /\ last.mtcode \in {"MSGWGINIT", "MSGWGRESP"}
    /\ ifnv = Stored(TheConfig)

\* C22: every frame the enclave writes goes to the descriptor of the
\* interface that owns the peer the message is about, never to the
\* descriptor of the proxy or of another interface, and carries the id of
\* that peer: a handshake message and the session keys bear the session id
\* of that peer's handshake, a connect request the addresses of the
\* message that was handled
C22_SentOnOwnersPort ==
    \A j \in 1..Len(sent) :
       LET q == <<last.ifnid, last.peer>>
       IN  /\ q \in Peers
           /\ sent[j].port # pport
           /\ sent[j].port = ifn(peerof(q[1], q[2]).ifn).port
           /\ \A n \in IfnIds \ {q[1]} : sent[j].port # IfnPort(n)
           /\ sent[j].peerid = peerof(q[1], q[2]).id
           /\ sent[j].mtcode \in {"MSGWGINIT", "MSGWGRESP", "MSGCONNREQ", "MSGSESSKEYS"}
           /\ sent[j].mtcode \in {"MSGWGINIT", "MSGWGRESP"}
                 => sent[j].body.sender = hs[q].sessid
           /\ sent[j].mtcode = "MSGSESSKEYS" => sent[j].body.sessid = hs[q].sessid
           /\ sent[j].mtcode = "MSGCONNREQ"
                 => sent[j].body = makemsgconnreq(last.fsn, last.lsn)

\* the enclave answered an init of the proxy for an interface other than the
\* first, after it had written the init itself
C22_Witness ==
    /\ Len(sent) = 3
    /\ last.src = "proxy"
    /\ last.ifnid = 1
    /\ last.peer = 0
    /\ SentTypes = <<"MSGCONNREQ", "MSGSESSKEYS", "MSGWGRESP">>
    /\ \E m \in net : IsInit(m) /\ m.sender = hs[<<0, 0>>].sessid

\* C23: whenever a handler has returned, and with it every handshake
\* operation and session-key derivation it called, the temporaries t0, k,
\* tau, tmpc, tmpstat and tmpts hold only zero bytes
C23_TemporariesZero ==
    pc = "handled" => \A b \in DOMAIN scratch : scratch[b] = ZeroKey

\* an init was accepted and answered: t0 is zero, while k and tau are the
\* keys derived for the response, tmpc its chaining key, tmpstat the static
\* public key of the peer and tmpts its timestamp
C23_Witness ==
    /\ InitAccepted
    /\ last.ret = 0
    /\ scratch.t0 = ZeroKey
    /\ scratch.k[1] = "kdf"
    /\ scratch.tau[1] = "kdf"
    /\ scratch.tmpc = hs[<<last.ifnid, last.peer>>].c
    /\ scratch.tmpstat = peerof(last.ifnid, last.peer).pubkey
    /\ scratch.tmpts[1] = "ts"

\* what enclave_init has done when it returns, in this order
AllDone == <<"SEOS", "fds", "limits", "signals", "chroot", "ids", "pledge">>

\* C24: the enclave takes a message from an interface or the proxy only
\* after recvconfig has read the whole configuration and SEOS and after the
\* descriptor check, chroot, the change of group and user and pledge have
\* succeeded, in this order; when a step fails the process exits and never
\* serves
C24_ServesAfterStartup ==
    /\ [](\E k \in 0..Len(AllDone) : boot.done = SubSeq(AllDone, 1, k))
    /\ [](pc \in {"kevent", "handled", "checked"}
            => /\ boot.at = "serve"
               /\ boot.done = AllDone
               /\ masterq = <<>>
               /\ Len(ifnv) = boot.nifns
               /\ \A i \in 1..Len(ifnv) : Len(ifnv[i].peers) = ifnv[i].ifn.peerssize)
    /\ [][pc' = "handled" => boot.at = "serve" /\ boot.done = AllDone]_vars
    /\ [][boot.at \in {"exit", "abort"} => (pc' = pc /\ boot' = boot /\ sent' = sent)]_vars
    /\ [][(boot.at \notin {"serve", "exit", "abort"} /\ boot'.at \in {"exit", "abort"})
            => pc' \in {"exit", "fault"}]_vars

\* the enclave handled a message after a complete startup
C24_Witness ==
    /\ pc = "handled"
    /\ last.src \in {"ifn", "proxy"}
    /\ boot.done = AllDone
    /\ ifnv = Stored(TheConfig)


\* the types recvconfig accepts for the interfaces from the i-th on of table V
RECURSIVE Expected(_, _)
Expected(V, i) ==
    IF i > Len(V) THEN <<>>
    ELSE <<"SIFN">> \o [j \in 1..V[i].ifn.peerssize |-> "SPEER"] \o Expected(V, i + 1)

\* C25: recvconfig accepts SINIT, then for each of the nifns interfaces one
\* SIFN followed by as many SPEER as the SIFN announced, then SEOS, and
\* nothing else: a message of another type, or a receive that fails, makes
\* the process exit with status 1, and enclave_serv is reached only with the
\* whole configuration stored
C25_OnlyTheProtocol ==
    /\ [][(boot.at \in RecvStages /\ masterq # <<>> /\ Head(masterq).type # boot.at
           /\ boot' # boot)
            => (boot'.at = "exit" /\ boot'.err = "type" /\ pc' = "exit")]_vars
    /\ [][(boot.at \in RecvStages /\ masterq = <<>> /\ boot' # boot)
            => (boot'.at = "exit" /\ boot'.err = "recv" /\ pc' = "exit")]_vars
    /\ [](boot.at \in {"fds", "limits", "signals", "chroot", "ids", "pledge", "serve"}
            => /\ Len(ifnv) = boot.nifns
               /\ \A i \in 1..Len(ifnv) : Len(ifnv[i].peers) = ifnv[i].ifn.peerssize
               /\ boot.read = <<"SINIT">> \o Expected(ifnv, 1) \o <<"SEOS">>)
    /\ [](pc \in {"kevent", "handled", "checked"} => boot.at = "serve")

\* recvconfig exited on a message of another type than SPEER where the
\* second peer of an interface was due
C25_Witness ==
    /\ boot.at = "exit"
    /\ boot.err = "type"
    /\ boot.n = 1
    /\ boot.m = 1
    /\ Len(ifnv) = 2
    /\ Len(ifnv[2].peers) = 1
    /\ pc = "exit"

\* the enclave was executed and is in recvconfig
Receiving == boot.at \in RecvStages

\* C26: what the master writes to the enclave with sendconfig_enclave and
\* signal_eos, for every configuration, with no interface or with interfaces
\* without peers too, is what recvconfig accepts: whenever recvconfig is
\* about to read a message, the message has the type recvconfig expects and
\* the ifnid and peerid its assertions demand; when recvconfig has returned
\* it has stored the configuration of the master, and it returns once the
\* master has signalled the end of startup
C26_MasterFeedsEnclave ==
    /\ [](boot.err \notin {"type", "assert"})
    /\ []((Receiving /\ masterq # <<>>)
            => /\ Head(masterq).type = boot.at
               /\ boot.at = "SIFN" => Head(masterq).ifnid = boot.n
               /\ boot.at = "SPEER"
                     => Head(masterq).ifnid = boot.n /\ Head(masterq).peerid = boot.m)
    /\ [](boot.at \in {"fds", "limits", "signals", "chroot", "ids", "pledge", "serve"}
            => /\ ifnv = Stored(mast.cfg)
               /\ boot.nifns = Len(mast.cfg)
               /\ boot.read = [j \in 1..Len(sendconfig_enclave(mast.cfg)) |->
                                 sendconfig_enclave(mast.cfg)[j].type] \o <<"SEOS">>)
    /\ []((Len(mast.eos) > 0 /\ masterq = <<>>) => ~Receiving)

\* recvconfig has returned with a configuration of two interfaces, the
\* first without peers and the second with two
C26_Witness ==
    /\ boot.at = "fds"
    /\ Len(mast.cfg) = 2
    /\ Len(mast.cfg[1].peers) = 0
    /\ Len(mast.cfg[2].peers) = 2
    /\ ifnv = Stored(mast.cfg)
    /\ Len(boot.read) = 6

\* the processes in the order in which the master signals them
EosOrder(c) == <<Encl, Prox>> \o [i \in 1..Len(c) |-> Ifn(i - 1)]

\* C27: the master sends SEOS only after the complete configuration was sent
\* to the enclave, to the proxy and to every interface, and after it has
\* executed itself anew, has changed its root, has pledged and has read its
\* descriptors; it then signals the enclave first, the proxy second and the
\* interfaces in the order of their index
C27_EosLast ==
    /\ [][mast'.eos # mast.eos
            => /\ mast.pc = "eos"
               /\ mast.sentto = Kids(mast.cfg)
               /\ mast.jail = {"chroot", "pledge"}
               /\ mastmast \notin mast.fds
               /\ Len(mast.eos) = 0
                    => masterq \in
                         {SubSeq(sendconfig_enclave(mast.cfg), j,
                                 Len(sendconfig_enclave(mast.cfg))) :
                            j \in 1..(Len(sendconfig_enclave(mast.cfg)) + 1)}
               /\ Len(mast'.eos) = Len(mast.eos) + 1]_vars
    /\ [](mast.eos = SubSeq(EosOrder(mast.cfg), 1, Len(mast.eos)))
    /\ [](\A j \in 1..Len(masterq) :
             masterq[j].type = "SEOS" => (j = Len(masterq) /\ Len(mast.eos) > 0))

\* the master has signalled the enclave, the proxy and two interfaces
C27_Witness ==
    /\ mast.pc = "waitpid"
    /\ Len(mast.cfg) = 2
    /\ mast.eos = <<Encl, Prox, Ifn(0), Ifn(1)>>
    /\ boot.at = "serve"

\* the child of interface n is past its calls of close
Closed(n) == Ifn(n) \in DOMAIN kids /\ kids[Ifn(n)].st \in {"exec", "abort"}

\* C28: for every interface index n, the first and the later ones, the
\* forked child of the interface has closed the descriptors of the master's
\* side of the interfaces 0..n and holds its three channel ends and the
\* standard descriptors only, so that its assertion on the number of open
\* descriptors holds
C28_IfnChildHoldsThree ==
    \A n \in 0..(MaxIfns - 1) :
       Closed(n)
          => /\ kids[Ifn(n)].fds = Std \cup {ifnwithmast(n), ifnwithencl(n), ifnwithprox(n)}
             /\ Cardinality(kids[Ifn(n)].fds) = stdopen + 3
             /\ kids[Ifn(n)].st # "abort"

\* the child of the second interface still holds the three descriptors of
\* the first interface that it inherited, and its assertion has failed
C28_Witness ==
    /\ Closed(1)
    /\ kids[Ifn(1)].st = "abort"
    /\ {mastwithifn(0), enclwithifn(0), proxwithifn(0)} \subseteq kids[Ifn(1)].fds
    /\ Cardinality(kids[Ifn(1)].fds) = stdopen + 6

\* the descriptors of the enclave: its channels with the master, with the
\* proxy and with each of nifns interfaces
EnclEnds(nifns) ==
    {enclwithmast, enclwithprox} \cup {enclwithifn(n) : n \in 0..(nifns - 1)}

\* recvconfig has returned
Configured == boot.at \in {"fds", "limits", "signals", "chroot", "ids", "pledge", "serve"}

\* C29: for any number of interfaces the child that becomes the enclave is
\* executed with the standard descriptors, its channel with the master, its
\* channel with the proxy and one channel for each interface, stdopen + 2 +
\* nifns descriptors, and these are the numbers announced in SINIT and SIFN
\* and on the command line: the descriptor check of enclave_init passes, and
\* the enclave exits at that check only with a descriptor missing or leaked
C29_EnclaveDescriptors ==
    /\ [](kids[Encl].st \in {"exec", "abort"}
            => /\ kids[Encl].st = "exec"
               /\ kids[Encl].fds = Std \cup EnclEnds(NIfns)
               /\ Cardinality(kids[Encl].fds) = stdopen + 2 + NIfns)
    /\ [](Configured
            => /\ boot.masterport = enclwithmast
               /\ boot.pport = enclwithprox
               /\ boot.nifns = NIfns
               /\ \A i \in 1..Len(ifnv) : ifnv[i].ifn.port = enclwithifn(i - 1)
               /\ {boot.masterport, boot.pport} \cup {ifnv[i].ifn.port : i \in 1..Len(ifnv)}
                     = kids[Encl].fds \ Std)
    /\ [](boot.at = "fds" => fdsok(boot, ifnv, kids[Encl].fds))
    /\ [](boot.err # "fds")
    /\ [][(boot.at = "fds" /\ boot'.at = "exit")
            => ~fdsok(boot, ifnv, kids[Encl].fds)]_vars

\* the enclave of a configuration with two interfaces has passed its
\* descriptor check with stdopen + 4 descriptors
C29_Witness ==
    /\ boot.at = "limits"
    /\ boot.done = <<"SEOS", "fds">>
    /\ NIfns = 2
    /\ Cardinality(kids[Encl].fds) = stdopen + 4
    /\ mast.pc # "waitpid"

\* the type codes handleifnmsg and handleproxymsg have a case for
IfnKnown == {"MSGWGINIT", "MSGWGRESP", "MSGREQWGINIT"}
ProxyKnown == {"MSGWGINIT", "MSGWGRESP"}

\* the message the enclave has just read has a type code its handler has no
\* case for
UnknownType(l) ==
    \/ l.src = "ifn" /\ l.mtcode \notin IfnKnown
    \/ l.src = "proxy" /\ l.mtcode \notin ProxyKnown

\* C30: a message with an unknown type code, from an interface or from the
\* proxy, is dropped: the handler returns an error, no peer and no handshake
\* changes, nothing is emitted, and the enclave goes on to its next event
C30_UnknownTypeDropped ==
    [][(pc = "kevent" /\ UnknownType(last'))
         => /\ pc' = "handled"
            /\ last'.ret = -1
            /\ sent' = <<>>
            /\ hs' = hs /\ recvts' = recvts /\ nkeys' = nkeys
            /\ net' = net /\ keylog' = keylog /\ accepted' = accepted]_vars

\* the proxy sent a frame of an unknown type with the number of interfaces
\* as interface id, and the process faulted in the default case
C30_Witness ==
    /\ pc = "fault"
    /\ last.src = "proxy"
    /\ last.mtcode = "MSGCONNREQ"
    /\ last.ifnid = ifnvsize

\* C30 for every interface id but the number of interfaces
C30_DroppedElsewhere ==
    [][(pc = "kevent" /\ UnknownType(last') /\ last'.ifnid # ifnvsize)
         => /\ pc' = "handled"
            /\ last'.ret = -1
            /\ last'.err \in {"mtcode", "nopeerid", "ifnid"}
            /\ sent' = <<>>
            /\ hs' = hs /\ recvts' = recvts /\ nkeys' = nkeys
            /\ net' = net /\ keylog' = keylog /\ accepted' = accepted]_vars

\* an interface and the proxy each had a frame of an unknown type dropped
C30_IfnDropped == pc = "handled" /\ last.src = "ifn" /\ last.err = "mtcode"
C30_ProxyDropped ==
    pc = "handled" /\ last.src = "proxy" /\ last.err = "mtcode"
       /\ last.mtcode = "MSGREQWGINIT"

\* the peer ids an interface can send that are not ids of its peers
NoPeerIds(n) == peerssize(n)..(peerssize(n) + 1)

\* C31: a message from an interface with a peer id that is not the id of a
\* peer of that interface is rejected before its type is examined: for
\* every type the handler returns the same error without a peer, with the
\* handshake states and timestamps as they were and without a frame, and in
\* the step that handles such a message nothing changes and nothing is sent
C31_UnknownPeerIdRejected ==
    /\ [](\A n \in IfnIds, mtcode \in Mtcodes : \A peerid \in NoPeerIds(n) :
             /\ findifnpeerbyid(n, peerid) = NULL
             /\ handleifnmsg(n, peerid, mtcode, NoMsg, 0, NextEpriv, Zeros(TSLEN),
                             Zeros(TAGLEN), 0, hs, recvts)
                   = dropped("nopeerid", NULL, hs, recvts))
    /\ [][(pc = "kevent" /\ last'.err = "nopeerid")
            => /\ pc' = "handled"
               /\ last'.src = "ifn"
               /\ last'.ret = -1
               /\ sent' = <<>>
               /\ hs' = hs /\ recvts' = recvts /\ nkeys' = nkeys
               /\ net' = net /\ keylog' = keylog /\ accepted' = accepted]_vars

\* an interface sent an init with a peer id it has no peer for, while a
\* handshake was under way, and the message was dropped
C31_Witness ==
    /\ pc = "handled"
    /\ last.src = "ifn"
    /\ last.mtcode = "MSGWGINIT"
    /\ last.err = "nopeerid"
    /\ net # {}

\* the response among the frames the last message made the enclave send
SentResp == sent[Len(sent)].body
\* the MSGSESSKEYS among them
SentKeys == sent[Len(sent) - 1].body

\* C32: the response created for an accepted init, written into the buffer
\* that held the init, has type 2, the sender of that init as receiver, the
\* session id the responder has just chosen as sender and a mac2 of zeros,
\* and the MSGSESSKEYS sent with it carries the same two ids: the sender of
\* the response as sessid and the sender of the init as peersessid
C32_ResponseIds ==
    (InitAccepted /\ last.ret = 0)
       => /\ sent[Len(sent)].mtcode = "MSGWGRESP"
          /\ sent[Len(sent) - 1].mtcode = "MSGSESSKEYS"
          /\ le32toh(SentResp.type) = 2
          /\ SentResp.receiver = last.msg.sender
          /\ SentResp.sender = hs[<<last.ifnid, last.peer>>].sessid
          /\ SentResp.mac2 = Zeros(16)
          /\ SentKeys.sessid = SentResp.sender
          /\ SentKeys.peersessid = last.msg.sender
          /\ hs[<<last.ifnid, last.peer>>].peersessid = last.msg.sender

\* an init was accepted and answered with a session id that is not the
\* sender of the init
C32_Witness ==
    /\ InitAccepted
    /\ last.ret = 0
    /\ Len(sent) >= 2
    /\ SentResp.sender # last.msg.sender
    /\ SentResp.receiver = last.msg.sender

\* no handshake with peer q has begun: neither createhsinit nor createhsresp
\* has run for it
Fresh(q) == nkeys[q] = 0

\* C33: before any handshake with a peer has begun its recvts is all zero
\* and it has no active local session id: a response, whatever its
\* receiver, is not matched to that peer by findifnpeerbysessid
C33_FreshPeerUnmatched ==
    /\ [](\A q \in Peers : Fresh(q) => recvts[q] = Zeros(TSLEN))
    /\ [][(pc = "kevent" /\ last'.mtcode = "MSGWGRESP" /\ last'.peer # NULL)
            => ~Fresh(<<last'.ifnid, last'.peer>>)]_vars

\* a response with a valid mac1 was matched to a peer that has not begun a
\* handshake, by the session id that peer's struct hs held since it was
\* allocated, and was then dropped by upgradehsresp
C33_Witness ==
    /\ pc = "handled"
    /\ last.mtcode = "MSGWGRESP"
    /\ last.peer # NULL
    /\ last.err \in {"dh", "empty"}
    /\ Fresh(<<last.ifnid, last.peer>>)
    /\ \E q \in Peers : ~Fresh(q)

\* a frame MSGSESSKEYS is among the frames S
HasKeys(S) == \E j \in 1..Len(S) : S[j].mtcode = "MSGSESSKEYS"

\* the peer an interface asserts for the message recorded in l, or NULL
Asserted(l) == IF l.src = "ifn" THEN findifnpeerbyid(l.ifnid, l.peerid) ELSE NULL

\* The init recorded in l passed every check against the state HS, RTS: its
\* mac1 verifies under the public key of the interface, the static key
\* opens and is the key of a peer of the interface (the asserted one if one
\* is asserted), the timestamp opens and is later than the one stored.
InitPassed(l, HS, RTS) ==
    /\ ws_validmac(l.msg.mac1, Mac1DataInit(l.msg), ifn(l.ifnid).mac1key)
    /\ \E tail \in Tails :
          LET u == upgradehsinit(l.ifnid, l.msg, Asserted(l), TRUE, HS, RTS, tail)
          IN  /\ u.ret = 0
              /\ u.peer = l.peer
              /\ memcmp(u.recvts[<<l.ifnid, l.peer>>], RTS[<<l.ifnid, l.peer>>], TSLEN) > 0

\* The response recorded in l passed every check against the state HS: its
\* mac1 verifies, its receiver is the session id of a peer of the interface
\* (the asserted one if one is asserted), its empty payload opens.
RespPassed(l, HS) ==
    LET p == findifnpeerbysessid(l.ifnid, l.msg.receiver, HS)
    IN  /\ ws_validmac(l.msg.mac1, Mac1DataResp(l.msg), ifn(l.ifnid).mac1key)
        /\ p # NULL
        /\ p = l.peer
        /\ Asserted(l) \in {NULL, p}
        /\ upgradehsresp(<<l.ifnid, p>>, HS[<<l.ifnid, p>>], l.msg, FALSE).ret = 0

\* C34: a frame MSGSESSKEYS is sent, and session keys reach an interface,
\* only in a step that handles a MSGWGINIT or a MSGWGRESP which passed mac1,
\* the resolution of its peer and every AEAD open, and for an init the
\* timestamp check; no other step, and no step that handles MSGREQWGINIT or
\* a message that is rejected, sends session keys.
C34_KeysOnlyWhenAuthenticated ==
    [][((HasKeys(sent') /\ sent' # sent) \/ keylog' # keylog)
         => /\ pc = "kevent" /\ pc' = "handled"
            /\ \/ last'.mtcode = "MSGWGINIT" /\ InitPassed(last', hs, recvts)
               \/ last'.mtcode = "MSGWGRESP" /\ RespPassed(last', hs)]_vars

\* session keys were sent for a response, after a request for an init and
\* rejected messages were handled without any
C34_Witness ==
    /\ RespAccepted
    /\ HasKeys(sent)
    /\ \E k \in keylog : k.responder
    /\ \E k \in keylog : ~k.responder

\* two interfaces that are each other's peer ask for a handshake with the
\* other, and one of them for a handshake with its other peer, twice in all
CrossPeers == {<<0, 0>>, <<1, 0>>, <<1, 1>>}
InitCross == Booted(MaxInits + 1, CrossPeers, "ok")
\* what happens to a message on its way then: it arrives as it is, any
\* number of times and at any interface, or with another receiver
CrossTampers(m) == TampersOf(m) \cap {"none", "receiver"}
NextCross ==
    \/ \E q \in Peers : IfnReqWgInit(q[1], q[2])
    \/ \E q \in Peers, m \in net : \E how \in CrossTampers(m) : IfnWgMsg(q[1], q[2], m, how)
    \/ \E ifnid \in IfnIds, m \in net, fsn \in ForeignAddrs, lsn \in LocalAddrs :
          \E how \in CrossTampers(m) : ProxyWgMsg(ifnid, m, how, fsn, lsn)
    \/ enclave_serv
SpecCross == InitCross /\ [][NextCross]_vars

\* the peer whose handshake generated the ephemeral key of message m, and
\* the ordinal of that key among the keys generated for the peer
KeyOf(m) == m.ephemeral[2] - ifnvsize - 1
MadeFor(m, q) == KeyOf(m) % Cardinality(Peers) = PeerIndex(q)
Newer(m2, m) == KeyOf(m2) > KeyOf(m)

\* init m was made by createhsinit for peer q, and the newest handshake with
\* q (createhsinit, or createhsresp for an init of q that was accepted) made
\* m2 with another local session id
Superseded(m, q) ==
    /\ IsInit(m)
    /\ MadeFor(m, q)
    /\ \E m2 \in net : /\ MadeFor(m2, q) /\ Newer(m2, m) /\ m2.sender # m.sender
                       /\ \A m3 \in net : MadeFor(m3, q) => ~Newer(m3, m2)

\* the results of the handlers for response r as it may arrive for interface
\* n: from the proxy, or from the interface with any of its peer ids
Deliveries(n, r) ==
    {handleproxymsg(n, lsn, fsn, "MSGWGRESP", r, 0, NextEpriv, Zeros(TAGLEN), 0, hs, recvts) :
        lsn \in LocalAddrs, fsn \in ForeignAddrs}
    \cup {handleifnmsg(n, peerid, "MSGWGRESP", r, 0, NextEpriv, Zeros(TSLEN),
                       Zeros(TAGLEN), 0, hs, recvts) : peerid \in 0..(peerssize(n) - 1)}

C35_Rekeyed ==
    \E q \in Peers, m \in net :
       Superseded(m, q) /\ \E m2 \in net : IsInit(m2) /\ MadeFor(m2, q) /\ Newer(m2, m)

C36_ResponseAcceptedOnce ==
    /\ [](RespAccepted
            => \A R \in Deliveries(last.ifnid, last.msg) :
                  R.ret = -1 /\ R.sent = <<>> /\ R.keys = {} /\ R.HS = hs)
    /\ [][(pc = "kevent" /\ pc' = "handled" /\ last'.mtcode = "MSGWGRESP" /\ last'.seen)
            => /\ last'.ret = -1
               /\ sent' = <<>>
               /\ keylog' = keylog
               /\ hs' = hs]_vars

\* the response that was accepted for a peer is delivered again while the
\* peer holds the chaining key and the remote session id committed for it,
\* and is dropped by upgradehsresp
C36_Witness ==
    /\ pc = "handled"
    /\ last.mtcode = "MSGWGRESP"
    /\ last.seen
    /\ last.err = "empty"
    /\ \E k \in keylog :
          /\ ~k.responder
          /\ k.q = <<last.ifnid, last.peer>>
          /\ hs[k.q].c = k.c
          /\ hs[k.q].peersessid = k.msk.peersessid


\* C37: the local session ids in the handshake states of two peers of one
\* interface with which a handshake has begun differ, and the lookup of a
\* session id that createhsinit has just chosen for a peer finds that peer
C37_SessionIdsDistinct ==
    /\ \A q1, q2 \in Peers :
          (q1[1] = q2[1] /\ q1 # q2 /\ ~Fresh(q1) /\ ~Fresh(q2))
             => hs[q1].sessid # hs[q2].sessid
    /\ (pc = "handled" /\ last.mtcode = "MSGREQWGINIT" /\ last.ret = 0)
          => findifnpeerbysessid(last.ifnid, sent[1].body.sender, hs) = last.peer

\* createhsinit chose for a peer the session id that createhsresp had chosen
\* for another peer of the interface: the init went out with a sender that
\* findifnpeerbysessid resolves to the other peer
C37_Witness ==
    /\ pc = "handled"
    /\ last.mtcode = "MSGREQWGINIT"
    /\ last.ret = 0
    /\ \E q \in Peers :
          /\ q[1] = last.ifnid
          /\ q[2] # last.peer
          /\ ~Fresh(q)
          /\ hs[q].sessid = sent[1].body.sender
          /\ findifnpeerbysessid(last.ifnid, sent[1].body.sender, hs) = q[2]

\* frame number a waits on the descriptor of interface n
Waits(n, a) == \E j \in 1..Len(inq[IfnPort(n)]) : inq[IfnPort(n)][j].at = a

\* C38: a frame that waits on the descriptor of an interface is eventually
\* read by handleifnmsg, unless the interface closes its end: whatever the
\* order of the events kevent returns, and also when the proxy descriptor
\* is readable each time.
C38_IfnEventuallyDispatched ==
    \A n \in IfnIds, a \in 1..MaxArrivals :
       Waits(n, a) ~> (rd[IfnPort(n)] >= a \/ IfnPort(n) \in hup)

\* The for loop has ended with the event of the proxy descriptor: a frame
\* of an interface that had arrived before the proxy's frame, and so was
\* reported by the same kevent after it, has not been read.
C38_Witness ==
    /\ pc = "handled"
    /\ ev = <<>>
    /\ last.src = "proxy"
    /\ hup = {}
    /\ \E n \in IfnIds :
          /\ inq[IfnPort(n)] # <<>>
          /\ Head(inq[IfnPort(n)]).at <= rd[pport]

\* C39: once a child has terminated, the master ends only through killpg
\* after waitpid, which sends SIGTERM to the process group: it does not
\* exit and leave the children that remain without the signal.
C39_ChildEndTerminatesGroup ==
    [][((\E k \in DOMAIN kids : Ended(k)) /\ mast'.pc # mast.pc /\ mast'.pc = "exit")
         => ~\E k \in DOMAIN kids : Remains(k)]_vars

\* The enclave has exited in recvconfig, where calloc failed.  The new
\* master, chrooted and pledged, has exited before it has sent SEOS to any
\* process, and the proxy and the interfaces run on.
C39_Witness ==
    /\ mast.pc = "exit"
    /\ mast.jail = {"chroot", "pledge"}
    /\ mast.eos = <<>>
    /\ Encl \in mast.sentto
    /\ boot.at = "exit"
    /\ boot.err = "nomem"
    /\ \A k \in DOMAIN kids \ {Encl} : Remains(k) /\ kids[k].st = "exec"

\* the interface private keys and the pre-shared keys of configuration c,
\* as a slot holds them; the null key stands for no pre-shared key
Secrets(c) ==
    {Key(c[i].priv) : i \in 1..Len(c)}
    \cup (UNION {{PskOf(c[i].priv, c[i].peers[j]) : j \in 1..Len(c[i].peers)} :
                    i \in 1..Len(c)} \ {ZeroKey})

\* the secrets that lie somewhere in the messages msgs
Carried(c, msgs) ==
    {x \in Secrets(c) : \E j \in 1..Len(msgs), i \in 1..sizeof_smsg :
                           i <= Len(msgs[j].body) /\ msgs[j].body[i] = x}

\* C40: whatever the configuration, no message the master has written to
\* the proxy or to an interface process holds an interface private key or a
\* pre-shared key in any of its fields, although the buffer the messages are
\* built in held the messages of the enclave before; the messages written to
\* the enclave hold all of them.
C40_SecretsOnlyToEnclave ==
    /\ \A k \in DOMAIN mast.wrote \ {Encl} : Carried(mast.cfg, mast.wrote[k]) = {}
    /\ Encl \in mast.sentto => Carried(mast.cfg, mast.wrote[Encl]) = Secrets(mast.cfg)

\* The master has written a private key and a pre-shared key to the enclave
\* and after that the whole configuration to the proxy and to an interface
\* process that has a peer.
C40_Witness ==
    /\ mast.pc = "reexec"
    /\ Len(mast.cfg) > 0
    /\ Cardinality(Secrets(mast.cfg)) > 1
    /\ Const("psk") \in Carried(mast.cfg, mast.wrote[Encl])
    /\ \E m \in 1..Len(mast.wrote[Prox]) : mast.wrote[Prox][m].type = "SCIDRADDR"
    /\ \E m \in 1..Len(mast.wrote[Ifn(0)]) : mast.wrote[Ifn(0)][m].type = "SPEER"

====
